---- MODULE Spec2Model ----
(***************************************************************************)
(* Verification model of gpu-particle-life: the epoch state machine, the   *)
(* per-epoch genetic algorithm, the CPU physics step with its spatial      *)
(* layer, and the GPU compute data path.                                   *)
(*                                                                         *)
(* The module holds several specifications over disjoint groups of         *)
(* variables; a specification leaves the other groups at their idle value. *)
(*   SpecEvo      reset_for_new_epoch / generate_improved_population       *)
(*   Spec         the frame loop: state transitions, Update systems, UI,   *)
(*                extraction and the render-graph compute node             *)
(*   SpecExec     what a tick computes from: world, extracted data and     *)
(*                GPU buffers across resets and executor switches          *)
(*   SpecPhysics  one CPU tick particle by particle, the KD-tree and the   *)
(*                torus neighbor cache                                     *)
(*   SpecReset    the particle layout from the spawn through the resets    *)
(*   SpecGenome   a Genotype under random, crossover, mutate, replacement  *)
(*   SpecGenomeApi  the same with new, set_force, set_interesting_forces   *)
(*                and the force lookups                                    *)
(*   SpecEvoDegenerate  the evolution step without scored populations and  *)
(*                with a single one                                        *)
(*   SpecHistory  fitness_history across epochs and clones                 *)
(*   SpecCalls    load_all_populations, torus_distance, apply_bounds,      *)
(*                crossover and the tournament on bounded arguments        *)
(*   SpecConfig   the genetic parameters and max_epochs from the main menu *)
(*                to the epoch boundaries                                  *)
(*   SpecFood     one food item over the frames, with speed and pause      *)
(***************************************************************************)
EXTENDS Integers, Sequences, FiniteSets, TLC

VARIABLES
    \* ---- evolution engine (systems/reset.rs) ----
    evo_pc,            \* position inside reset_for_new_epoch
    target_size,       \* sim_params.simulation_count
    elite_tenths,      \* config.elite_ratio, in tenths
    diversity_low,     \* stats.diversity_index < 0.5
    scored_genomes,    \* Vec<ScoredGenome>
    new_population,    \* Vec<Genotype> under construction
    inject_left,       \* iterations left of the diversity-injection loop
    generation         \* the genomes of the simulations after the reset

evoVars == <<evo_pc, target_size, elite_tenths, diversity_low, scored_genomes,
             new_population, inject_left, generation>>

VARIABLES
    \* ---- frame loop (plugins/simulation.rs, plugins/compute.rs, ui) ----
    phase,             \* schedule the frame is in
    todo,              \* Update systems that have not run yet in this frame
    simState,          \* State<SimulationState>
    nextState,         \* NextState<SimulationState>, "none" when unset
    current_epoch,     \* sim_params.current_epoch
    epoch_timer,       \* elapsed time of sim_params.epoch_timer, in frame deltas
    simulation_speed,  \* multiplier of sim_params.simulation_speed: 0, 1, 2, 4
    compute_enabled,   \* ComputeEnabled.0
    space_pressed,     \* keyboard.just_pressed(KeyCode::Space) in this frame
    scores,            \* Score of every simulation
    genotype,          \* generation of the genomes the simulations hold
    engine_runs,       \* times reset_for_new_epoch has replaced the genomes
    previous_stats,    \* best score kept in previous_stats, -1 for None
    extracted,         \* ExtractedParticleData of the render world
    buffers_present,   \* the render world holds a ParticleBuffers resource
    pipeline_ready,    \* the compute pipeline has been compiled
    cpu_ticks,         \* physical ticks of the CPU system in this frame
    gpu_ticks          \* physical ticks of the compute node in this frame

frameVars == <<phase, todo, simState, nextState, current_epoch, epoch_timer,
               simulation_speed, compute_enabled, space_pressed, scores, genotype,
               engine_runs, previous_stats, extracted, buffers_present,
               pipeline_ready, cpu_ticks, gpu_ticks>>

VARIABLES
    \* ---- data path of the executors (plugins/compute.rs) ----
    exec_step,         \* schedule the frame is in
    exec_epoch,        \* sim_params.current_epoch
    in_starting,       \* the frame is spent in SimulationState::Starting
    exec_speed,        \* multiplier of sim_params.simulation_speed
    exec_compute,      \* ComputeEnabled.0
    world_genomes,     \* generation of the Genotype components
    world_pos,         \* particle state held by the Transform components
    extracted_data,    \* ExtractedParticleData
    particle_buffers,  \* ParticleBuffers: genome buffer and particle buffer
    last_pos,          \* particle state produced by the latest tick or reset
    tick_exec,         \* executor of the latest tick, "none" before the first
    tick_used,         \* genomes and particle state the latest tick read
    tick_world         \* genomes of the world and current particle state then

execVars == <<exec_step, exec_epoch, in_starting, exec_speed, exec_compute,
              world_genomes, world_pos, extracted_data, particle_buffers,
              last_pos, tick_exec, tick_used, tick_world>>

VARIABLES
    \* ---- CPU tick and spatial layer (systems/movement.rs) ----
    phys_todo,         \* systems of Update that have not run in the frame
    p_pc,              \* position inside physics_simulation_system
    boundary_mode,     \* BoundaryMode
    phys_speed,        \* multiplier of sim_params.simulation_speed
    attraction,        \* force of the genome of each population
    pos,               \* Transform.translation of each particle
    vel,               \* Velocity of each particle
    tree,              \* ParticleTree: the positions it was built from
    cache,             \* TorusNeighborCache.neighbors
    forces,            \* the map calculate_forces_with_torus is filling
    integrated,        \* particles apply_physics_step has moved
    iterations_left,   \* iterations of the loop still to run
    ticks_done,        \* ticks completed by the physics system in the frame
    tick_start_pos,    \* positions when the current tick began
    last_query         \* latest call of get_torus_neighbors and its result

physVars == <<phys_todo, p_pc, boundary_mode, phys_speed, attraction, pos, vel,
              tree, cache, forces, integrated, iterations_left, ticks_done,
              tick_start_pos, last_query>>

VARIABLES
    \* ---- particle layout across resets (systems/reset.rs, spawning.rs) ----
    reset_pc,            \* "spawned", "running" or "reset"
    r_particle_count,    \* sim_params.particle_count
    r_type_count,        \* particle_config.type_count
    r_epoch,             \* sim_params.current_epoch
    particle_positions,  \* the (type, position) list of the latest spawn/reset
    p_type,              \* ParticleType of the k-th child of each simulation
    p_translation,       \* Transform.translation of that particle
    p_velocity           \* Velocity of that particle

resetVars == <<reset_pc, r_particle_count, r_type_count, r_epoch,
               particle_positions, p_type, p_translation, p_velocity>>

VARIABLES
    \* ---- one Genotype under its operations (components/genotype.rs) ----
    genome,       \* the Genotype operated on
    mate,         \* a second Genotype: the other parent, the replacement
    ops_left,     \* operations still to be applied in this behaviour
    last_op,      \* name of the latest operation
    lookup        \* arguments and result of the latest get_force/get_food_force

genomeVars == <<genome, mate, ops_left, last_op, lookup>>

VARIABLES
    \* ---- fitness_history of the genomes across epochs ----
    hist_pc,           \* "running" (epoch under way) or "scored"
    hist_epoch,        \* sim_params.current_epoch
    fitness_history,   \* fitness_history of the genome of each simulation
    pushed_values      \* every value pushed on that genome and on the
                       \* genomes it was cloned from, oldest first

histVars == <<hist_pc, hist_epoch, fitness_history, pushed_values>>

VARIABLES
    \* one call of a function of the program: its name, its arguments and
    \* what it returned
    call_fn,
    call_args,
    call_result

callVars == <<call_fn, call_args, call_result>>

VARIABLES
    \* the main menu and the genetic parameters of the epoch boundaries
    cfg_pc,            \* "off", "menu" or "simulation" (AppState)
    menu_config,       \* MenuConfig: rates in hundredths
    cfg_params,        \* the SimulationParameters inserted by the menu
    genetic_config,    \* the GeneticConfig of the latest epoch boundary
    cfg_elite_count,   \* elite_count of the latest epoch boundary
    cfg_epoch          \* sim_params.current_epoch

cfgVars == <<cfg_pc, menu_config, cfg_params, genetic_config, cfg_elite_count,
             cfg_epoch>>

VARIABLES
    \* ---- one food item over the frames (systems/collision.rs) ----
    f_pc,              \* system of the frame that runs next
    f_state,           \* State<SimulationState>: "Running" or "Paused"
    f_speed,           \* multiplier of sim_params.simulation_speed
    f_near,            \* populations whose particle is within collision range
    f_scores,          \* Score of every simulation
    f_food,            \* the item: Visibility, ViewVisibility, respawn timer
    f_appearances,     \* times the item has appeared: the spawn, the respawns
    f_awards           \* times the item has awarded its value

foodVars == <<f_pc, f_state, f_speed, f_near, f_scores, f_food, f_appearances,
              f_awards>>

VARIABLE
    \* extract_particle_data and extract_simulation_params are added to
    \* ExtractSchedule through the main App (plugins/compute.rs, lines 90-94);
    \* whether the renderer then runs them is fixed for a build and is not
    \* decided by this repository, so both builds are followed
    extract_runs

vars == <<evoVars, frameVars, execVars, physVars, resetVars, genomeVars,
          histVars, callVars, cfgVars, foodVars, extract_runs>>

\* the variables that a specification of one group leaves alone
nonEvoVars == <<frameVars, execVars, physVars, resetVars, genomeVars,
                histVars, callVars, cfgVars, foodVars, extract_runs>>

nonFrameVars == <<evoVars, execVars, physVars, resetVars, genomeVars,
                  histVars, callVars, cfgVars, foodVars, extract_runs>>

nonExecVars == <<evoVars, frameVars, physVars, resetVars, genomeVars,
                 histVars, callVars, cfgVars, foodVars, extract_runs>>

nonPhysVars == <<evoVars, frameVars, execVars, resetVars, genomeVars,
                 histVars, callVars, cfgVars, foodVars, extract_runs>>

nonResetVars == <<evoVars, frameVars, execVars, physVars, genomeVars,
                  histVars, callVars, cfgVars, foodVars, extract_runs>>

nonGenomeVars == <<evoVars, frameVars, execVars, physVars, resetVars,
                   histVars, callVars, cfgVars, foodVars, extract_runs>>

nonHistVars == <<evoVars, frameVars, execVars, physVars, resetVars,
                 genomeVars, callVars, cfgVars, foodVars, extract_runs>>

nonCallVars == <<evoVars, frameVars, execVars, physVars, resetVars,
                 genomeVars, histVars, cfgVars, foodVars, extract_runs>>

nonCfgVars == <<evoVars, frameVars, execVars, physVars, resetVars,
                genomeVars, histVars, callVars, foodVars, extract_runs>>

nonFoodVars == <<evoVars, frameVars, execVars, physVars, resetVars,
                 genomeVars, histVars, callVars, cfgVars, extract_runs>>

----------------------------------------------------------------------------
\* Bounds of the model

\* largest simulation_count explored (the menu allows 1..=20)
MaxSimCount == 10

\* simulations of the frame-loop model
NumSims == 2

\* epochs after which the frame-loop model stops the epoch timer
MaxEpoch == 2

\* epoch_duration, in frame deltas at speed 1
EpochDuration == 2

\* largest score explored (food is no longer eaten beyond it)
MaxScore == 2

\* particle states are told apart by the number of ticks since the reset,
\* counted modulo StepMod
StepMod == 3

\* particles of one population in the model of the CPU tick
NumParticles == 2

\* half of the grid width in the model of the CPU tick
GridHalf == 2

\* sim_params.max_force_range in the units of GridHalf
MaxForceRange == 2

\* MAX_VELOCITY in the units of GridHalf, per tick
MaxVelocity == 1

\* TorusNeighborCache.max_search_distance: Default, assigned nowhere
MaxSearchDistance == 0

\* food.respawn_timer: its duration in frame deltas
FoodRespawnTime == 2

\* the largest coordinate of a point of SpecCalls
MaxCoord == 1

\* PARTICLE_RADIUS
ParticleRadius == 4

\* const TOURNAMENT_SIZE: usize = 4
TournamentSize == 4

\* epochs over which the fitness histories are followed
MaxHistoryEpochs == 12

\* if self.fitness_history.len() > 10
HistoryCap == 10

\* type_count of the genomes whose interface is exercised:
\* MinTypeCount..MaxGenomeTypes
MaxGenomeTypes == 3

\* interface calls applied to a genome in one behaviour
MaxApiOps == 1

\* operations applied to a genome in one behaviour
MaxGenomeOps == 2

\* forces are counted in steps of 0.05: 1.0 is 20 steps
ForceUnit == 20

\* strategy_coherence is counted in steps of 1/960: 1.0 is 960 steps
CoherenceUnit == 960

\* particle_count of the configuration, scaled down: the menu offers
\* 10..=2000, the model MinParticleCount..MaxParticleCount
MinParticleCount == 4

MaxParticleCount == 5

\* particle_types of the configuration: the menu offers 2..=5, the model
\* MinTypeCount..MaxTypeCount
MinTypeCount == 2

MaxTypeCount == 3

\* positions a particle can have drifted to under the physics
NumDrifts == 2

----------------------------------------------------------------------------
\* Arithmetic helpers

Max(a, b) == IF a >= b THEN a ELSE b

Min(a, b) == IF a <= b THEN a ELSE b

\* ceil(a / b) for a >= 0, b > 0
CeilDiv(a, b) == (a + b - 1) \div b

----------------------------------------------------------------------------
\* Evolution engine: systems/reset.rs

\* config.coherence_threshold = 0.3, in tenths
CoherenceThresholdTenths == 3

\* (target_size as f32 * 0.1) as usize
DiversityInjectionCount(n) == n \div 10

\* elite ratios the run can be configured with (menu range 0.1..=0.5;
\* GeneticConfig::optimized() uses 0.3), in tenths
EliteRatios == {1, 3, 5}

\* ((target_size as f32 * config.elite_ratio).ceil() as usize).max(1)
EliteCount(n, tenths) == Max(CeilDiv(n * tenths, 10), 1)

\* scores of an epoch, by simulation id, drawn from a few shapes
ScorePatterns == {"flat", "asc", "desc"}

ScoreOf(pat, i, n) ==
    CASE pat = "flat" -> 0
      [] pat = "asc"  -> i
      [] pat = "desc" -> n - i

\* strategy_coherence (tenths) and fitness trend of the genomes, by id
CoherencePatterns == {"mid", "alt"}

CoherenceOf(pat, i) ==
    IF pat = "mid" THEN 5 ELSE IF i % 2 = 0 THEN 9 ELSE 2

TrendOf(pat, i) ==
    IF pat = "mid" THEN 0 ELSE IF i % 3 = 0 THEN 10 ELSE 0

\* collect_and_evaluate_genomes: one ScoredGenome per simulation, query order
CollectGenomes(n, spat, cpat) ==
    [i \in 1..n |-> [id |-> i, score |-> ScoreOf(spat, i, n),
                     coherence |-> CoherenceOf(cpat, i),
                     fitness_trend |-> TrendOf(cpat, i)]]

RECURSIVE SeqMaxScore(_), SeqMinScore(_)
SeqMaxScore(s) ==
    IF Len(s) = 1 THEN s[1].score ELSE Max(s[1].score, SeqMaxScore(Tail(s)))

SeqMinScore(s) ==
    IF Len(s) = 1 THEN s[1].score ELSE Min(s[1].score, SeqMinScore(Tail(s)))

\* calculate_epoch_stats: best and worst score of the epoch
EpochStats(s) ==
    IF Len(s) = 0 THEN [best_score |-> 0, worst_score |-> 0]
    ELSE [best_score |-> SeqMaxScore(s), worst_score |-> SeqMinScore(s)]

\* calculate_combined_fitness, times 700 * (best - worst) when best > worst
\* and times 700 otherwise: 0.6 normalized score + 0.3 coherence bonus
\* + 0.1 trend bonus, in exact integer arithmetic
CombinedFitness(g, stats) ==
    LET span  == stats.best_score - stats.worst_score
        cb    == IF g.coherence > CoherenceThresholdTenths
                 THEN g.coherence - CoherenceThresholdTenths ELSE 0
        tb    == Max(g.fitness_trend, 0)
    IN  IF span > 0
        THEN 420 * (g.score - stats.worst_score) + span * (30 * cb + 7 * tb)
        ELSE 210 + 30 * cb + 7 * tb

\* stable insertion of x behind every element that is not worse than it
RECURSIVE InsertDesc(_, _, _)
InsertDesc(x, s, stats) ==
    IF s = <<>> THEN <<x>>
    ELSE IF CombinedFitness(Head(s), stats) >= CombinedFitness(x, stats)
         THEN <<Head(s)>> \o InsertDesc(x, Tail(s), stats)
         ELSE <<x>> \o s

\* scored_genomes.sort_by(|a, b| score_b.partial_cmp(&score_a)): a stable
\* sort, best combined fitness first
RECURSIVE SortByCombinedFitness(_, _, _)
SortByCombinedFitness(s, k, stats) ==
    IF k = 0 THEN <<>>
    ELSE InsertDesc(s[k], SortByCombinedFitness(s, k - 1, stats), stats)

\* a genome of the next generation, by provenance: an elite (clone of the
\* scored genome src, lightly mutated), an offspring (crossover or clone,
\* adaptively mutated, coherence checked), or Genotype::random
Elite(src) == [kind |-> "elite", src |-> src, coh |-> "unchecked"]

Offspring(coh) == [kind |-> "offspring", src |-> 0, coh |-> coh]

RandomGenome == [kind |-> "random", src |-> 0, coh |-> "unchecked"]

EvoInit ==
    /\ evo_pc = "sort"
    /\ target_size \in 1..MaxSimCount
    /\ elite_tenths \in EliteRatios
    /\ diversity_low \in BOOLEAN
    /\ \E spat \in ScorePatterns, cpat \in CoherencePatterns :
           scored_genomes = CollectGenomes(target_size, spat, cpat)
    /\ new_population = <<>>
    /\ inject_left = 0
    /\ generation = <<>>

\* reset_for_new_epoch, lines 84-92: statistics, then the ranking
SortScored ==
    /\ evo_pc = "sort"
    /\ UNCHANGED nonEvoVars
    /\ scored_genomes' = SortByCombinedFitness(scored_genomes, Len(scored_genomes),
                                               EpochStats(scored_genomes))
    /\ evo_pc' = "elite"
    /\ UNCHANGED <<target_size, elite_tenths, diversity_low, new_population,
                   inject_left, generation>>

\* the elitism loop: for i in 0..elite_count.min(scored_genomes.len())
ElitePrefix(scored, n, tenths) ==
    [i \in 1..Min(EliteCount(n, tenths), Len(scored)) |-> Elite(scored[i].id)]

Elitism ==
    /\ evo_pc = "elite"
    /\ UNCHANGED nonEvoVars
    /\ new_population' = ElitePrefix(scored_genomes, target_size, elite_tenths)
    /\ evo_pc' = "loop"
    /\ UNCHANGED <<target_size, elite_tenths, diversity_low, scored_genomes,
                   inject_left, generation>>

\* while new_population.len() < target_size
LoopContinuesShort(len, n) == len + 1 < n

LoopContinues(len, n) == len < n

\* one iteration of the reproduction loop; crossover and the offspring's
\* coherence after mutation are the outcomes of the random draws
ReproduceOne(crossover, coh) ==
    LET len == Len(new_population)
        n   == target_size
    IN  IF Len(scored_genomes) = 0
        THEN \* enhanced_tournament_selection evaluates population[0]
             /\ evo_pc' = "panic"
             /\ UNCHANGED new_population
        ELSE IF n < 2
        THEN \* target_size - 2 underflows usize
             /\ evo_pc' = "panic"
             /\ UNCHANGED new_population
        ELSE /\ evo_pc' = "loop"
             /\ IF coh = "ok" \/ len >= n - 2
                THEN new_population' = Append(new_population, Offspring(coh))
                ELSE IF len < n - 1
                     THEN new_population' = Append(new_population, RandomGenome)
                     ELSE UNCHANGED new_population

Reproduce ==
    /\ evo_pc = "loop"
    /\ UNCHANGED nonEvoVars
    /\ LoopContinues(Len(new_population), target_size)
    /\ \E crossover \in BOOLEAN, coh \in {"ok", "low"} :
           /\ crossover => Len(scored_genomes) >= 2
           /\ ReproduceOne(crossover, coh)
    /\ UNCHANGED <<target_size, elite_tenths, diversity_low, scored_genomes,
                   inject_left, generation>>

\* end of the loop: if stats.diversity_index < 0.5 && new_population.len() > 2
EndReproduction ==
    /\ evo_pc = "loop"
    /\ UNCHANGED nonEvoVars
    /\ ~LoopContinues(Len(new_population), target_size)
    /\ evo_pc' = "inject"
    /\ inject_left' = IF diversity_low /\ Len(new_population) > 2
                      THEN DiversityInjectionCount(target_size) ELSE 0
    /\ UNCHANGED <<target_size, elite_tenths, diversity_low, scored_genomes,
                   new_population, generation>>

\* rng.random_range(elite_count..new_population.len()), as 1-based slots
InjectRangeAll(elite_count, len) == 1..len

InjectRange(elite_count, len) == (elite_count + 1)..len

\* one iteration of the diversity-injection loop
DiversityInjection ==
    /\ evo_pc = "inject"
    /\ UNCHANGED nonEvoVars
    /\ inject_left > 0
    /\ inject_left' = inject_left - 1
    /\ LET len   == Len(new_population)
           range == InjectRange(EliteCount(target_size, elite_tenths), len)
       IN  IF len > DiversityInjectionCount(target_size)
           THEN IF range = {}
                THEN \* random_range panics on an empty range
                     /\ evo_pc' = "panic"
                     /\ UNCHANGED new_population
                ELSE /\ evo_pc' = "inject"
                     /\ \E replace_idx \in range :
                            new_population' =
                                [new_population EXCEPT ![replace_idx] = RandomGenome]
           ELSE UNCHANGED <<evo_pc, new_population>>
    /\ UNCHANGED <<target_size, elite_tenths, diversity_low, scored_genomes,
                   generation>>

\* new_population.truncate(target_size), then
\* reset_simulations_with_new_genomes: simulation i takes new_genomes[i]
ApplyGenomes ==
    /\ evo_pc = "inject"
    /\ UNCHANGED nonEvoVars
    /\ inject_left = 0
    /\ generation' = SubSeq(new_population, 1, Min(Len(new_population), target_size))
    /\ evo_pc' = "done"
    /\ UNCHANGED <<target_size, elite_tenths, diversity_low, scored_genomes,
                   new_population, inject_left>>

NextEvo ==
    \/ SortScored
    \/ Elitism
    \/ Reproduce
    \/ EndReproduction
    \/ DiversityInjection
    \/ ApplyGenomes

\* the frame-loop variables while the evolution engine is modelled on its own
FrameIdle ==
    /\ phase = "idle"
    /\ todo = {}
    /\ simState = "Starting"
    /\ nextState = "none"
    /\ current_epoch = 1
    /\ epoch_timer = 0
    /\ simulation_speed = 1
    /\ compute_enabled = FALSE
    /\ space_pressed = FALSE
    /\ scores = <<>>
    /\ genotype = 0
    /\ engine_runs = 0
    /\ previous_stats = -1
    /\ extracted = <<>>
    /\ buffers_present = FALSE
    /\ pipeline_ready = FALSE
    /\ cpu_ticks = 0
    /\ gpu_ticks = 0

\* the data-path variables while another part is modelled
ExecIdle ==
    /\ exec_step = "idle"
    /\ exec_epoch = 0
    /\ in_starting = FALSE
    /\ exec_speed = 1
    /\ exec_compute = FALSE
    /\ world_genomes = 0
    /\ world_pos = <<>>
    /\ extracted_data = <<>>
    /\ particle_buffers = <<>>
    /\ last_pos = <<>>
    /\ tick_exec = "none"
    /\ tick_used = <<>>
    /\ tick_world = <<>>

\* the variables of the CPU tick while another part is modelled
PhysIdle ==
    /\ phys_todo = {}
    /\ p_pc = "off"
    /\ boundary_mode = "Bounce"
    /\ phys_speed = 1
    /\ attraction = << >>
    /\ pos = << >>
    /\ vel = << >>
    /\ tree = << >>
    /\ cache = << >>
    /\ forces = << >>
    /\ integrated = 0
    /\ iterations_left = 0
    /\ ticks_done = 0
    /\ tick_start_pos = << >>
    /\ last_query = << >>

\* the particle-layout variables while another part is modelled
ResetIdle ==
    /\ reset_pc = "off"
    /\ r_particle_count = 0
    /\ r_type_count = 0
    /\ r_epoch = 0
    /\ particle_positions = << >>
    /\ p_type = << >>
    /\ p_translation = << >>
    /\ p_velocity = << >>

\* the genome variables while another part is modelled
GenomeIdle ==
    /\ genome = << >>
    /\ mate = << >>
    /\ ops_left = 0
    /\ last_op = "off"
    /\ lookup = << >>

\* the fitness-history variables while another part is modelled
HistIdle ==
    /\ hist_pc = "off"
    /\ hist_epoch = 0
    /\ fitness_history = << >>
    /\ pushed_values = << >>

CallIdle ==
    /\ call_fn = "none"
    /\ call_args = << >>
    /\ call_result = << >>

CfgIdle ==
    /\ cfg_pc = "off"
    /\ menu_config = << >>
    /\ cfg_params = << >>
    /\ genetic_config = << >>
    /\ cfg_elite_count = 0
    /\ cfg_epoch = 0

FoodIdle ==
    /\ f_pc = "off"
    /\ f_state = "Running"
    /\ f_speed = 0
    /\ f_near = {}
    /\ f_scores = << >>
    /\ f_food = << >>
    /\ f_appearances = 0
    /\ f_awards = 0

InitEvo ==
    /\ EvoInit
    /\ FrameIdle
    /\ ExecIdle
    /\ PhysIdle
    /\ ResetIdle
    /\ GenomeIdle
    /\ HistIdle
    /\ CallIdle
    /\ CfgIdle
    /\ FoodIdle
    /\ extract_runs = FALSE

SpecEvo == InitEvo /\ [][NextEvo]_vars

----------------------------------------------------------------------------
\* Properties of the evolution engine (SpecEvo)

\* what is left to do in reset_for_new_epoch: the stage, then the slots the
\* reproduction loop still fills or the injections still to make
EvoMeasure ==
    LET stage == CASE evo_pc = "sort"   -> 4
                   [] evo_pc = "elite"  -> 3
                   [] evo_pc = "loop"   -> 2
                   [] evo_pc = "inject" -> 1
                   [] OTHER             -> 0
        left  == CASE evo_pc = "loop"   -> target_size - Len(new_population)
                   [] evo_pc = "inject" -> inject_left
                   [] OTHER             -> 0
    IN  stage * (MaxSimCount + 2) + left

ClaimedElites == CeilDiv(target_size * elite_tenths, 10)

\* slot k of seq holds the elite cloned from the k-th ranked genome, and no
\* genome ranked behind the elites has a better combined fitness than it
\* (stats: the statistics of the epoch)
IsEliteSlot(seq, k, stats) ==
    /\ k <= Len(seq)
    /\ seq[k] = Elite(scored_genomes[k].id)
    /\ \A j \in (ClaimedElites + 1)..Len(scored_genomes) :
           CombinedFitness(scored_genomes[k], stats)
               >= CombinedFitness(scored_genomes[j], stats)

\* C2: the top ceil(simulation_count * elite_ratio) genomes by combined fitness
\* occupy the first slots of the next generation, changed by nothing but the
\* light elite mutation, from the end of elitism on: the reproduction loop and
\* the diversity injection leave these slots alone, and the simulations
\* receive them.
C2_ElitesPreserved ==
    LET stats == EpochStats(scored_genomes)
    IN  /\ evo_pc \in {"loop", "inject", "done", "panic"} =>
               /\ Cardinality({scored_genomes[i].id : i \in 1..Len(scored_genomes)})
                      = target_size
               /\ \A k \in 1..ClaimedElites : IsEliteSlot(new_population, k, stats)
        /\ evo_pc = "done" =>
               \A k \in 1..ClaimedElites : IsEliteSlot(generation, k, stats)

\* a generation with several elites, a ranking that reordered the simulations,
\* and a diversity injection that replaced a slot
C2_Witness ==
    /\ evo_pc = "done"
    /\ ClaimedElites >= 3
    /\ scored_genomes[1].id # 1
    /\ diversity_low
    /\ DiversityInjectionCount(target_size) >= 1
    /\ \E k \in (target_size - 1)..target_size : generation[k].kind = "random"

----------------------------------------------------------------------------
\* Frame loop: plugins/simulation.rs, resources/simulation.rs,
\* systems/collision.rs, ui/force_matrix.rs, plugins/compute.rs.
\* A frame runs StateTransition, the Update systems, the egui pass, the
\* extraction into the render world and the render schedule with the compute
\* node.  The schedule orders detect_food_collision before
\* enhanced_epoch_management (the chain) and nothing else.  Systems that write
\* disjoint state are taken in one order (transition_to_running,
\* physics_simulation_system, detect_food_collision); handle_pause_input and
\* enhanced_epoch_management both write NextState and run in either order.

Sims == 1..NumSims

\* SimulationSpeed::multiplier, which is also the iteration count per frame
Speeds == {0, 1, 2, 4}

\* the systems SimulationPlugin adds to Update that act on the modelled state
AllSystems == {"transition_to_running", "physics_simulation_system",
               "detect_food_collision", "enhanced_epoch_management",
               "handle_pause_input"}

\* ExtractedParticleData after the clear() calls, compute disabled
NoExtract == [enabled |-> FALSE, has_particles |-> FALSE]

\* Score::default()
ScoreDefault == 0

\* Score::add
ScoreAdd(score, value) == score + value

\* food.value (DEFAULT_FOOD_VALUE)
FoodValue == 1

\* reset_simulations_with_new_genomes: *score = Score::default()
KeepScores(sc) == sc

ResetScores(sc) == [s \in DOMAIN sc |-> ScoreDefault]

\* the evolution-engine variables while the frame loop is modelled
EvoIdle ==
    /\ evo_pc = "idle"
    /\ target_size = 0
    /\ elite_tenths = 0
    /\ diversity_low = FALSE
    /\ scored_genomes = <<>>
    /\ new_population = <<>>
    /\ inject_left = 0
    /\ generation = <<>>

\* entering AppState::Simulation: apply_configuration has inserted the
\* resources and OnEnter(AppState::Simulation) has set NextState to Starting
FrameInit ==
    /\ phase = "transition"
    /\ todo = {}
    /\ simState = "Boot"
    /\ nextState = "Starting"
    /\ current_epoch = 0
    /\ epoch_timer = 0
    /\ simulation_speed = 1
    /\ compute_enabled \in BOOLEAN
    /\ space_pressed = FALSE
    /\ scores = [s \in Sims |-> ScoreDefault]
    /\ genotype = 0
    /\ engine_runs = 0
    /\ previous_stats = -1
    /\ extracted = NoExtract
    /\ buffers_present = FALSE
    /\ pipeline_ready \in BOOLEAN
    /\ cpu_ticks = 0
    /\ gpu_ticks = 0

\* calculate_epoch_stats: the best score of the epoch that ended
BestScore(sc) == CHOOSE b \in {sc[s] : s \in DOMAIN sc} :
                     \A s \in DOMAIN sc : sc[s] <= b

\* reset_for_new_epoch in OnEnter(SimulationState::Starting): nothing at
\* epoch 0, otherwise the new generation replaces the genomes, the scores are
\* reset and the particles repositioned
ResetForNewEpoch ==
    IF current_epoch = 0
    THEN UNCHANGED <<genotype, scores, engine_runs, previous_stats>>
    ELSE /\ previous_stats' = BestScore(scores)
         /\ genotype' = current_epoch
         /\ scores' = ResetScores(scores)
         /\ engine_runs' = engine_runs + 1

\* the StateTransition schedule: the pending NextState is applied and the
\* OnEnter systems of the state entered run; then the frame's input arrives
StateTransition ==
    /\ phase = "transition"
    /\ IF nextState # "none" /\ nextState # simState
       THEN /\ simState' = nextState
            /\ IF nextState = "Starting"
               THEN ResetForNewEpoch
               ELSE UNCHANGED <<genotype, scores, engine_runs, previous_stats>>
       ELSE UNCHANGED <<simState, genotype, scores, engine_runs,
                        previous_stats>>
    /\ nextState' = "none"
    /\ phase' = "update"
    /\ todo' = AllSystems
    /\ space_pressed' \in BOOLEAN
    /\ cpu_ticks' = 0
    /\ gpu_ticks' = 0
    /\ UNCHANGED <<current_epoch, epoch_timer, simulation_speed, compute_enabled,
                   extracted, buffers_present, pipeline_ready>>
    /\ UNCHANGED nonFrameVars

\* transition_to_running.run_if(in_state(SimulationState::Starting))
TransitionToRunning ==
    /\ phase = "update"
    /\ todo = AllSystems
    /\ todo' = todo \ {"transition_to_running"}
    /\ nextState' = IF simState = "Starting" THEN "Running" ELSE nextState
    /\ UNCHANGED <<phase, simState, current_epoch, epoch_timer, simulation_speed,
                   compute_enabled, space_pressed, scores, genotype, engine_runs, previous_stats,
                   extracted, buffers_present, pipeline_ready, cpu_ticks, gpu_ticks>>
    /\ UNCHANGED nonFrameVars

\* run conditions of physics_simulation_system
PhysicsRuns(state, enabled) == state = "Running" /\ ~enabled

\* physics_simulation_system: simulation_speed iterations, each one tick
PhysicsSimulationSystem ==
    /\ phase = "update"
    /\ "physics_simulation_system" \in todo
    /\ "transition_to_running" \notin todo
    /\ todo' = todo \ {"physics_simulation_system"}
    /\ IF PhysicsRuns(simState, compute_enabled)
       THEN cpu_ticks' = simulation_speed
       ELSE UNCHANGED cpu_ticks
    /\ UNCHANGED <<phase, simState, nextState, current_epoch, epoch_timer,
                   simulation_speed, compute_enabled, space_pressed, scores,
                   genotype, engine_runs, previous_stats, extracted, buffers_present, pipeline_ready,
                   gpu_ticks>>
    /\ UNCHANGED nonFrameVars

\* detect_food_collision: a particle of some simulation may reach the food,
\* whose value is added to the score of that simulation
DetectFoodCollision ==
    /\ phase = "update"
    /\ "detect_food_collision" \in todo
    /\ "physics_simulation_system" \notin todo
    /\ todo' = todo \ {"detect_food_collision"}
    /\ IF simState = "Running"
       THEN \E eater \in Sims \cup {0} :
                IF eater = 0
                THEN UNCHANGED scores
                ELSE /\ ScoreAdd(scores[eater], FoodValue) <= MaxScore
                     /\ scores' = [scores EXCEPT
                                      ![eater] = ScoreAdd(@, FoodValue)]
       ELSE UNCHANGED scores
    /\ UNCHANGED <<phase, simState, nextState, current_epoch, epoch_timer,
                   simulation_speed, compute_enabled, space_pressed, genotype,
                   engine_runs, previous_stats, extracted, buffers_present, pipeline_ready, cpu_ticks, gpu_ticks>>
    /\ UNCHANGED nonFrameVars

\* SimulationParameters::tick with a frame delta of 1: the timer is scaled by
\* the speed and does not advance when the speed is Paused (nor, in the model,
\* after MaxEpoch epochs)
TimerTick(elapsed, speed, epoch) ==
    IF speed = 0 \/ epoch >= MaxEpoch
    THEN elapsed
    ELSE Min(elapsed + speed, EpochDuration)

\* enhanced_epoch_management, after detect_food_collision in the chain
EnhancedEpochManagement ==
    /\ phase = "update"
    /\ "enhanced_epoch_management" \in todo
    /\ "detect_food_collision" \notin todo
    /\ todo' = todo \ {"enhanced_epoch_management"}
    /\ IF simState = "Running"
       THEN LET ticked == TimerTick(epoch_timer, simulation_speed, current_epoch)
            IN  IF ticked >= EpochDuration
                THEN \* start_new_epoch, then next_state.set(Starting)
                     /\ current_epoch' = current_epoch + 1
                     /\ epoch_timer' = 0
                     /\ nextState' = "Starting"
                ELSE /\ epoch_timer' = ticked
                     /\ UNCHANGED <<current_epoch, nextState>>
       ELSE UNCHANGED <<current_epoch, epoch_timer, nextState>>
    /\ UNCHANGED <<phase, simState, simulation_speed, compute_enabled,
                   space_pressed, scores, genotype, engine_runs, previous_stats, extracted,
                   buffers_present, pipeline_ready, cpu_ticks,
                   gpu_ticks>>
    /\ UNCHANGED nonFrameVars

\* handle_pause_input: runs in every SimulationState, unordered with respect
\* to the other Update systems
HandlePauseInput ==
    /\ phase = "update"
    /\ "handle_pause_input" \in todo
    /\ "detect_food_collision" \notin todo
    /\ todo' = todo \ {"handle_pause_input"}
    /\ nextState' = IF space_pressed /\ simState = "Running" THEN "Paused"
                    ELSE IF space_pressed /\ simState = "Paused" THEN "Running"
                    ELSE nextState
    /\ UNCHANGED <<phase, simState, current_epoch, epoch_timer, simulation_speed,
                   compute_enabled, space_pressed, scores, genotype, engine_runs, previous_stats,
                   extracted, buffers_present, pipeline_ready, cpu_ticks, gpu_ticks>>
    /\ UNCHANGED nonFrameVars

\* every Update system has run
EndUpdate ==
    /\ phase = "update"
    /\ todo = {}
    /\ phase' = "ui"
    /\ UNCHANGED <<todo, simState, nextState, current_epoch, epoch_timer,
                   simulation_speed, compute_enabled, space_pressed, scores,
                   genotype, engine_runs, previous_stats, extracted, buffers_present, pipeline_ready,
                   cpu_ticks, gpu_ticks>>
    /\ UNCHANGED nonFrameVars

\* speed_control_ui in EguiContextPass: at most one button is clicked in a
\* frame, a speed button (speed_click >= 0) or the GPU toggle
SpeedControlUi ==
    /\ phase = "ui"
    /\ \E speed_click \in Speeds \cup {-1}, gpu_click \in BOOLEAN :
           /\ ~(speed_click >= 0 /\ gpu_click)
           /\ simulation_speed' = IF speed_click >= 0 THEN speed_click
                                  ELSE simulation_speed
           /\ compute_enabled' = IF gpu_click THEN ~compute_enabled
                                 ELSE compute_enabled
    /\ phase' = "extract"
    /\ UNCHANGED <<todo, simState, nextState, current_epoch, epoch_timer,
                   space_pressed, scores, genotype, engine_runs, previous_stats, extracted,
                   buffers_present, pipeline_ready, cpu_ticks,
                   gpu_ticks>>
    /\ UNCHANGED nonFrameVars

\* extract_particle_data, as registered: once per frame while in
\* AppState::Simulation, whatever the SimulationState; in a build that does
\* not run it ExtractedParticleData keeps its Default
ExtractParticleData ==
    /\ phase = "extract"
    /\ extracted' = IF extract_runs /\ compute_enabled
                    THEN [enabled |-> TRUE, has_particles |-> TRUE]
                    ELSE NoExtract
    /\ phase' = "prepare"
    /\ UNCHANGED <<todo, simState, nextState, current_epoch, epoch_timer,
                   simulation_speed, compute_enabled, space_pressed, scores,
                   genotype, engine_runs, previous_stats, buffers_present, pipeline_ready, cpu_ticks, gpu_ticks>>
    /\ UNCHANGED nonFrameVars

\* prepare_particle_buffers: the buffers are removed when compute is disabled,
\* created from the extracted data when there are none, and otherwise left as
\* they are (the particle and simulation counts do not change during a run);
\* their content is followed in SpecExec
PrepareParticleBuffers ==
    /\ phase = "prepare"
    /\ buffers_present' = IF ~extracted.enabled /\ ~extracted.has_particles
                          THEN FALSE
                          ELSE TRUE
    /\ phase' = "node"
    /\ UNCHANGED <<todo, simState, nextState, current_epoch, epoch_timer,
                   simulation_speed, compute_enabled, space_pressed, scores,
                   genotype, engine_runs, previous_stats, extracted, pipeline_ready, cpu_ticks, gpu_ticks>>
    /\ UNCHANGED nonFrameVars

\* ParticleComputeNode::run: simulation_speed dispatches on the buffers, each
\* followed by the copy of the output buffer to the input buffer.  The results
\* stay in the render world: apply_compute_results is in no schedule.
ParticleComputeNodeRun ==
    /\ phase = "node"
    /\ \E ready \in {pipeline_ready, TRUE} :
           /\ pipeline_ready' = ready
           /\ IF buffers_present /\ ready /\ extracted.enabled
                 /\ extracted.has_particles
              THEN gpu_ticks' = simulation_speed
              ELSE UNCHANGED gpu_ticks
    /\ phase' = "transition"
    /\ UNCHANGED <<todo, simState, nextState, current_epoch, epoch_timer,
                   simulation_speed, compute_enabled, space_pressed, scores,
                   genotype, engine_runs, previous_stats, extracted, buffers_present,
                   cpu_ticks>>
    /\ UNCHANGED nonFrameVars

Next ==
    \/ StateTransition
    \/ TransitionToRunning
    \/ PhysicsSimulationSystem
    \/ DetectFoodCollision
    \/ EnhancedEpochManagement
    \/ HandlePauseInput
    \/ EndUpdate
    \/ SpeedControlUi
    \/ ExtractParticleData
    \/ PrepareParticleBuffers
    \/ ParticleComputeNodeRun

Init ==
    /\ FrameInit
    /\ EvoIdle
    /\ ExecIdle
    /\ PhysIdle
    /\ ResetIdle
    /\ GenomeIdle
    /\ HistIdle
    /\ CallIdle
    /\ CfgIdle
    /\ FoodIdle
    /\ extract_runs \in BOOLEAN

Spec == Init /\ [][Next]_vars

----------------------------------------------------------------------------
\* Properties of the frame loop (Spec)

\* a frame's Update schedule is about to run
UpdateBegins == phase = "update" /\ todo = AllSystems

\* C3: each time the epoch timer elapses the evolution engine runs exactly
\* once before physics resumes: whenever a frame's Update begins in state
\* Running, reset_for_new_epoch has replaced the genomes once for every epoch
\* that has ended, whatever the order of the epoch-end system and the
\* pause-key handler, and it has not run while current_epoch is 0.
C3_EngineOncePerEpoch ==
    /\ engine_runs <= current_epoch
    /\ (UpdateBegins /\ simState = "Running") => engine_runs = current_epoch

C10_ScoreMonotoneThenReset ==
    [][IF engine_runs' = engine_runs
       THEN \A s \in Sims : scores'[s] >= scores[s]
       ELSE \A s \in Sims : scores'[s] = 0]_vars

\* the frame of a reset: food was eaten in the epoch that ended, the engine
\* has run, and every score is back at 0
C10_Witness ==
    /\ UpdateBegins
    /\ simState = "Starting"
    /\ engine_runs >= 1
    /\ previous_stats >= 1
    /\ \A s \in Sims : scores[s] = 0

----------------------------------------------------------------------------
\* Data path of the two executors (SpecExec): what a tick computes from.
\* plugins/compute.rs, systems/movement.rs, systems/reset.rs.
\* The frames are those of Spec, without the pause key, the timer and the
\* scores: a frame is the frame of an epoch boundary (state Starting, the
\* reset has run) or a frame in state Running.  The compute pipeline is
\* compiled.

\* particle state: the reset that placed the particles, the ticks since
StartPos(epoch) == [base |-> epoch, steps |-> 0]

\* k physical ticks applied to a particle state
Advance(state, k) == [state EXCEPT !.steps = (@ + k) % StepMod]

\* no ParticleBuffers resource in the render world
NoBuffers == [present |-> FALSE, genomes |-> 0, pos |-> StartPos(0)]

\* ExtractedParticleData after the clear() calls, compute disabled
NoData == [enabled |-> FALSE, has_particles |-> FALSE, genomes |-> 0,
           pos |-> StartPos(0)]

\* the first frame: the simulations are spawned, state Starting, epoch 0
ExecInit ==
    /\ exec_step = "update"
    /\ exec_epoch = 0
    /\ in_starting = TRUE
    /\ exec_speed = 1
    /\ exec_compute \in BOOLEAN
    /\ world_genomes = 0
    /\ world_pos = StartPos(0)
    /\ extracted_data = NoData
    /\ particle_buffers = NoBuffers
    /\ last_pos = StartPos(0)
    /\ tick_exec = "none"
    /\ tick_used = [genomes |-> 0, pos |-> StartPos(0)]
    /\ tick_world = [genomes |-> 0, pos |-> StartPos(0)]

\* a frame that enters state Starting: reset_simulations_with_new_genomes
\* writes the new genomes and the reset positions into the world
ExecEpochBoundary ==
    /\ exec_step = "transition"
    /\ ~in_starting
    /\ exec_epoch < MaxEpoch
    /\ exec_epoch' = exec_epoch + 1
    /\ in_starting' = TRUE
    /\ world_genomes' = exec_epoch + 1
    /\ world_pos' = StartPos(exec_epoch + 1)
    /\ last_pos' = StartPos(exec_epoch + 1)
    /\ exec_step' = "update"
    /\ UNCHANGED <<exec_speed, exec_compute, extracted_data, particle_buffers,
                   tick_exec, tick_used, tick_world>>
    /\ UNCHANGED nonExecVars

\* a frame in state Running
ExecRunningFrame ==
    /\ exec_step = "transition"
    /\ in_starting' = FALSE
    /\ exec_step' = "update"
    /\ UNCHANGED <<exec_epoch, exec_speed, exec_compute, world_genomes,
                   world_pos, extracted_data, particle_buffers, last_pos,
                   tick_exec, tick_used, tick_world>>
    /\ UNCHANGED nonExecVars

\* physics_simulation_system: calculate_forces_with_torus reads the genomes
\* of the Simulation entities and the Transforms of the particles, and
\* apply_physics_step writes the Transforms
ExecCpuPhysics ==
    /\ exec_step = "update"
    /\ IF ~in_starting /\ ~exec_compute /\ exec_speed > 0
       THEN /\ tick_exec' = "cpu"
            /\ tick_used' = [genomes |-> world_genomes, pos |-> world_pos]
            /\ tick_world' = [genomes |-> world_genomes, pos |-> last_pos]
            /\ world_pos' = Advance(world_pos, exec_speed)
            /\ last_pos' = Advance(world_pos, exec_speed)
       ELSE UNCHANGED <<tick_exec, tick_used, tick_world, world_pos, last_pos>>
    /\ exec_step' = "ui"
    /\ UNCHANGED <<exec_epoch, in_starting, exec_speed, exec_compute,
                   world_genomes, extracted_data, particle_buffers>>
    /\ UNCHANGED nonExecVars

\* speed_control_ui: a speed button or the GPU toggle may be clicked
ExecControlUi ==
    /\ exec_step = "ui"
    /\ \E speed_click \in Speeds \cup {-1}, gpu_click \in BOOLEAN :
           /\ ~(speed_click >= 0 /\ gpu_click)
           /\ exec_speed' = IF speed_click >= 0 THEN speed_click ELSE exec_speed
           /\ exec_compute' = IF gpu_click THEN ~exec_compute ELSE exec_compute
    /\ exec_step' = "extract"
    /\ UNCHANGED <<exec_epoch, in_starting, world_genomes, world_pos,
                   extracted_data, particle_buffers, last_pos, tick_exec,
                   tick_used, tick_world>>
    /\ UNCHANGED nonExecVars

\* extract_particle_data: the particles and genomes of the world, when
\* compute is enabled and the build runs the system
ExecExtract ==
    /\ exec_step = "extract"
    /\ extracted_data' = IF extract_runs /\ exec_compute
                         THEN [enabled |-> TRUE, has_particles |-> TRUE,
                               genomes |-> world_genomes, pos |-> world_pos]
                         ELSE NoData
    /\ exec_step' = "prepare"
    /\ UNCHANGED <<exec_epoch, in_starting, exec_speed, exec_compute,
                   world_genomes, world_pos, particle_buffers, last_pos,
                   tick_exec, tick_used, tick_world>>
    /\ UNCHANGED nonExecVars

\* prepare_particle_buffers: existing buffers are returned as they are
\* (lines 290-292), new ones are filled from the extracted data
PreparedBuffers(existing, data) ==
    IF ~data.enabled /\ ~data.has_particles
    THEN NoBuffers
    ELSE IF existing.present
         THEN existing
         ELSE [present |-> TRUE, genomes |-> data.genomes, pos |-> data.pos]

ExecPrepare ==
    /\ exec_step = "prepare"
    /\ particle_buffers' = PreparedBuffers(particle_buffers, extracted_data)
    /\ exec_step' = "node"
    /\ UNCHANGED <<exec_epoch, in_starting, exec_speed, exec_compute,
                   world_genomes, world_pos, extracted_data, last_pos,
                   tick_exec, tick_used, tick_world>>
    /\ UNCHANGED nonExecVars

\* ParticleComputeNode::run: the dispatches read the genome buffer and the
\* particle buffer and write the particle buffer.  write_compute_results
\* fills SyncedComputeResults of the render world; apply_compute_results,
\* which would write the Transforms, is added to no schedule, so world_pos
\* is left as it is.
ExecComputeNode ==
    /\ exec_step = "node"
    /\ IF particle_buffers.present /\ extracted_data.enabled
          /\ extracted_data.has_particles /\ exec_speed > 0
       THEN /\ tick_exec' = "gpu"
            /\ tick_used' = [genomes |-> particle_buffers.genomes,
                             pos |-> particle_buffers.pos]
            /\ tick_world' = [genomes |-> world_genomes, pos |-> last_pos]
            /\ particle_buffers' =
                   [particle_buffers EXCEPT !.pos = Advance(@, exec_speed)]
            /\ last_pos' = Advance(particle_buffers.pos, exec_speed)
       ELSE UNCHANGED <<tick_exec, tick_used, tick_world, particle_buffers,
                        last_pos>>
    /\ exec_step' = "transition"
    /\ UNCHANGED <<exec_epoch, in_starting, exec_speed, exec_compute,
                   world_genomes, world_pos, extracted_data>>
    /\ UNCHANGED nonExecVars

NextExec ==
    \/ ExecEpochBoundary
    \/ ExecRunningFrame
    \/ ExecCpuPhysics
    \/ ExecControlUi
    \/ ExecExtract
    \/ ExecPrepare
    \/ ExecComputeNode

InitExec ==
    /\ ExecInit
    /\ EvoIdle
    /\ FrameIdle
    /\ PhysIdle
    /\ ResetIdle
    /\ GenomeIdle
    /\ HistIdle
    /\ CallIdle
    /\ CfgIdle
    /\ FoodIdle
    /\ extract_runs \in BOOLEAN

SpecExec == InitExec /\ [][NextExec]_vars

----------------------------------------------------------------------------
\* The CPU tick and the spatial layer (SpecPhysics): systems/movement.rs,
\* systems/torus_spatial.rs, resources/grid.rs.
\* One axis, integer coordinates, one particle type, no food; the frames are
\* frames in state Running with compute disabled.  Lengths are in units in
\* which PHYSICS_TIMESTEP is 1, PARTICLE_RADIUS is below the resolution and
\* the velocity damping of a tick is not resolved.  Every particle carries
\* the Velocity that the query of physics_simulation_system asks for.

\* the particles of all populations, in the order of the queries
Entities == 1..(NumSims * NumParticles)

\* SimulationId of the parent of a particle
SimOf(e) == ((e - 1) \div NumParticles) + 1

\* grid.width
GridWidth == 2 * GridHalf

Positions == (0 - GridHalf)..GridHalf

Abs(x) == IF x < 0 THEN 0 - x ELSE x

Sign(x) == IF x < 0 THEN -1 ELSE IF x > 0 THEN 1 ELSE 0

\* KDTree3::within_distance: the entries of the tree around a point
WithinDistance(index, position, radius) ==
    {e \in DOMAIN index : Abs(index[e] - position) <= radius}

\* TorusNeighborCache::torus_distance
TorusDistance(pos1, pos2) ==
    LET dx == Abs(pos2 - pos1)
    IN  Min(dx, GridWidth - dx)

\* TorusNeighborCache::torus_direction_vector
TorusDirectionVector(from, to) ==
    LET dx == to - from
    IN  IF 2 * Abs(dx) <= GridWidth
        THEN dx
        ELSE IF dx > 0 THEN dx - GridWidth ELSE dx + GridWidth

\* TorusNeighborCache::generate_torus_positions
GenerateTorusPositions(position) ==
    {position - GridWidth, position, position + GridWidth}

\* the list update_torus_cache stores for one particle
CachedNeighbors(index, positions, entity) ==
    {n \in Entities :
        /\ \E ghost_pos \in GenerateTorusPositions(positions[entity]) :
               n \in WithinDistance(index, ghost_pos, MaxSearchDistance)
        /\ n # entity
        /\ SimOf(n) = SimOf(entity)
        /\ TorusDistance(positions[entity], positions[n]) <= MaxSearchDistance}

\* TorusNeighborCache.neighbors after update_torus_cache
TorusCacheOf(mode, index, positions) ==
    IF mode # "Teleport"
    THEN << >>
    ELSE [e \in Entities |-> CachedNeighbors(index, positions, e)]

\* get_torus_neighbors
GetTorusNeighbors(cch, index, sim_id, entity, position, max_distance, mode) ==
    IF mode = "Teleport" /\ entity \in DOMAIN cch /\ SimOf(entity) = sim_id
    THEN cch[entity]
    ELSE WithinDistance(index, position, max_distance) \ {entity}

\* calculate_acceleration times max_force_range: the law beyond min_r
CalculateAcceleration(relative_pos, attr) ==
    Sign(relative_pos) * attr
        * (MaxForceRange - Abs(MaxForceRange - 2 * Abs(relative_pos)))

\* the contribution of one entry of the neighbor list (lines 123-169)
NeighborForce(entity, n, positions, mode, attr) ==
    IF SimOf(n) # SimOf(entity)
    THEN 0
    ELSE LET distance_vec ==
                 IF mode = "Teleport"
                 THEN TorusDirectionVector(positions[entity], positions[n])
                 ELSE positions[n] - positions[entity]
         IN  IF Abs(distance_vec) > MaxForceRange \/ distance_vec = 0
             THEN 0
             ELSE CalculateAcceleration(distance_vec, attr)

RECURSIVE SumForces(_, _, _, _, _, _)
SumForces(entity, k, neighbors, positions, mode, attr) ==
    IF k = 0
    THEN 0
    ELSE SumForces(entity, k - 1, neighbors, positions, mode, attr)
         + (IF k \in neighbors
            THEN NeighborForce(entity, k, positions, mode, attr)
            ELSE 0)

\* total_force of one particle in calculate_forces_with_torus
TotalForce(entity, cch, index, positions, mode, attr) ==
    SumForces(entity, NumSims * NumParticles,
              GetTorusNeighbors(cch, index, SimOf(entity), entity,
                                positions[entity], MaxForceRange, mode),
              positions, mode, attr[SimOf(entity)])

\* the velocity limit of apply_physics_step
ClampVelocity(v) == IF Abs(v) > MaxVelocity THEN Sign(v) * MaxVelocity ELSE v

\* GridParameters::apply_bounds, bounded mode; COLLISION_DAMPING is 0.5
BounceBounds(position, velocity) ==
    IF Abs(position) > GridHalf
    THEN [pos |-> Sign(position) * GridHalf,
          vel |-> 0 - Sign(velocity) * (Abs(velocity) \div 2)]
    ELSE [pos |-> position, vel |-> velocity]

\* toroidal mode: the position wraps modulo the domain size
TeleportBounds(position, velocity) ==
    [pos |-> ((position + GridHalf) % GridWidth) - GridHalf,
     vel |-> velocity]

ApplyBounds(position, velocity, mode) ==
    IF mode = "Teleport"
    THEN TeleportBounds(position, velocity)
    ELSE BounceBounds(position, velocity)

\* the loop of calculate_forces_with_torus has inserted every force
ForcesStarted(done) == done # {}

ForcesComplete(done) == done = Entities

\* a frame in state Running begins: every population holds the same
\* positions (spawning.rs), its particles numbered from left to right; the
\* tree and the cache are those of the frame before
PhysInit ==
    /\ phys_todo = {"physics", "cache"}
    /\ p_pc = "idle"
    /\ boundary_mode \in {"Bounce", "Teleport"}
    /\ phys_speed \in Speeds
    /\ attraction \in [Sims -> {-1, 1}]
    /\ \E start \in [1..NumParticles -> Positions] :
           /\ \A i \in 1..(NumParticles - 1) : start[i] <= start[i + 1]
           /\ pos = [e \in Entities |-> start[((e - 1) % NumParticles) + 1]]
    /\ vel = [e \in Entities |-> 0]
    /\ tree = pos
    /\ cache = TorusCacheOf(boundary_mode, pos, pos)
    /\ forces = << >>
    /\ integrated = 0
    /\ iterations_left = 0
    /\ ticks_done = 0
    /\ tick_start_pos = pos
    /\ last_query = [asked |-> FALSE, sim_id |-> 0, entity |-> 0, result |-> {}]

\* physics_simulation_system starts: the number of iterations of the frame
BeginPhysics ==
    /\ p_pc = "idle"
    /\ "physics" \in phys_todo
    /\ iterations_left' = phys_speed
    /\ ticks_done' = 0
    /\ p_pc' = "loop"
    /\ UNCHANGED <<phys_todo, boundary_mode, phys_speed, attraction, pos, vel,
                   tree, cache, forces, integrated, tick_start_pos, last_query>>
    /\ UNCHANGED nonPhysVars

\* one iteration of the loop begins with calculate_forces_with_torus
BeginTick ==
    /\ p_pc = "loop"
    /\ iterations_left > 0
    /\ forces' = << >>
    /\ integrated' = 0
    /\ tick_start_pos' = pos
    /\ p_pc' = "forces"
    /\ UNCHANGED <<phys_todo, boundary_mode, phys_speed, attraction, pos, vel,
                   tree, cache, iterations_left, ticks_done, last_query>>
    /\ UNCHANGED nonPhysVars

\* the force of the next particle of particles.iter(), from the neighbor
\* list of the spatial layer and the Transforms
ComputeForce ==
    /\ p_pc = "forces"
    /\ LET entity_a == Len(forces) + 1
       IN  /\ forces' = Append(forces, TotalForce(entity_a, cache, tree, pos,
                                                  boundary_mode, attraction))
           /\ last_query' =
                  [asked |-> TRUE, sim_id |-> SimOf(entity_a),
                   entity |-> entity_a,
                   result |-> GetTorusNeighbors(cache, tree, SimOf(entity_a),
                                                entity_a, pos[entity_a],
                                                MaxForceRange, boundary_mode)]
    /\ p_pc' = IF ForcesComplete(DOMAIN forces') THEN "integrate" ELSE "forces"
    /\ UNCHANGED <<phys_todo, boundary_mode, phys_speed, attraction, pos, vel,
                   tree, cache, integrated, iterations_left, ticks_done,
                   tick_start_pos>>
    /\ UNCHANGED nonPhysVars

\* apply_physics_step for the next particle of particles.iter_mut()
IntegrateParticle ==
    /\ p_pc = "integrate"
    /\ LET entity == integrated + 1
           velocity == IF entity \in DOMAIN forces
                       THEN ClampVelocity(vel[entity] + forces[entity])
                       ELSE vel[entity]
           bounded == ApplyBounds(pos[entity] + velocity, velocity,
                                  boundary_mode)
       IN  /\ pos' = [pos EXCEPT ![entity] = bounded.pos]
           /\ vel' = [vel EXCEPT ![entity] = bounded.vel]
           /\ integrated' = entity
           /\ IF entity = NumSims * NumParticles
              THEN /\ p_pc' = "loop"
                   /\ iterations_left' = iterations_left - 1
                   /\ ticks_done' = ticks_done + 1
              ELSE UNCHANGED <<p_pc, iterations_left, ticks_done>>
    /\ UNCHANGED <<phys_todo, boundary_mode, phys_speed, attraction, tree,
                   cache, forces, tick_start_pos, last_query>>
    /\ UNCHANGED nonPhysVars

\* physics_simulation_system returns
EndPhysics ==
    /\ p_pc = "loop"
    /\ iterations_left = 0
    /\ p_pc' = "idle"
    /\ phys_todo' = phys_todo \ {"physics"}
    /\ UNCHANGED <<boundary_mode, phys_speed, attraction, pos, vel, tree,
                   cache, forces, integrated, iterations_left, ticks_done,
                   tick_start_pos, last_query>>
    /\ UNCHANGED nonPhysVars

\* update_torus_cache, once in Update, in no order with the physics system
UpdateTorusCache ==
    /\ p_pc = "idle"
    /\ "cache" \in phys_todo
    /\ cache' = TorusCacheOf(boundary_mode, tree, pos)
    /\ phys_todo' = phys_todo \ {"cache"}
    /\ UNCHANGED <<p_pc, boundary_mode, phys_speed, attraction, pos, vel, tree,
                   forces, integrated, iterations_left, ticks_done,
                   tick_start_pos, last_query>>
    /\ UNCHANGED nonPhysVars

\* the frame ends; AutomaticUpdate<TrackedParticle> rebuilds the tree from
\* the positions when its 50 ms timer has elapsed
EndPhysFrame ==
    /\ p_pc = "idle"
    /\ phys_todo = {}
    /\ \E timer_elapsed \in BOOLEAN :
           tree' = IF timer_elapsed THEN pos ELSE tree
    /\ phys_todo' = {"physics", "cache"}
    /\ UNCHANGED <<p_pc, boundary_mode, phys_speed, attraction, pos, vel,
                   cache, forces, integrated, iterations_left, ticks_done,
                   tick_start_pos, last_query>>
    /\ UNCHANGED nonPhysVars

NextPhysics ==
    \/ BeginPhysics
    \/ BeginTick
    \/ ComputeForce
    \/ IntegrateParticle
    \/ EndPhysics
    \/ UpdateTorusCache
    \/ EndPhysFrame

InitPhysics ==
    /\ PhysInit
    /\ EvoIdle
    /\ FrameIdle
    /\ ExecIdle
    /\ ResetIdle
    /\ GenomeIdle
    /\ HistIdle
    /\ CallIdle
    /\ CfgIdle
    /\ FoodIdle
    /\ extract_runs = FALSE

SpecPhysics == InitPhysics /\ [][NextPhysics]_vars

\* C7: when the physics system of a frame has returned it has performed as
\* many ticks as the speed setting says (0, 1, 2 or 4), and every tick
\* begins with a rebuilt spatial index: the tree and the neighbor cache are
\* those of the positions the previous tick produced.
C7_FullStepPerTick ==
    /\ "physics" \notin phys_todo => ticks_done = phys_speed
    /\ p_pc = "forces" =>
           /\ tree = pos
           /\ cache = TorusCacheOf(boundary_mode, pos, pos)

\* C8: within a tick no particle is integrated while forces are computed,
\* integration starts only when every particle has its force, and every
\* force of the tick is the one computed from the positions all particles
\* had when the tick began.
C8_ForcesFromSnapshot ==
    /\ p_pc = "forces" => pos = tick_start_pos
    /\ p_pc = "integrate" => DOMAIN forces = Entities
    /\ p_pc \in {"forces", "integrate"} =>
           \A e \in DOMAIN forces :
               forces[e] = TotalForce(e, cache, tree, tick_start_pos,
                                      boundary_mode, attraction)

C8_Witness ==
    /\ p_pc = "integrate"
    /\ integrated > 0
    /\ integrated < NumSims * NumParticles
    /\ pos # tick_start_pos
    /\ \E e \in Entities : e > integrated /\ forces[e] # 0

\* C9: the neighbor list the spatial layer returns for a query contains
\* neither the querying particle nor a particle of another population, in
\* both boundary modes.
C9_NeighborsOwnPopulation ==
    last_query.asked =>
        /\ last_query.entity \notin last_query.result
        /\ \A n \in last_query.result : SimOf(n) = last_query.sim_id

----------------------------------------------------------------------------
\* The particle layout at the start of an epoch (SpecReset):
\* spawn_simulations_with_particles and reset_simulations_with_new_genomes.
\* A position is a token: the sample of an epoch's position list, or a place
\* the physics has moved the particle to.

\* the i-th position drawn by random_position_in_grid for an epoch
Sample(epoch, i) == [epoch |-> epoch, idx |-> i]

\* a position reached by the physics
Drift(d) == [epoch |-> -1, idx |-> d]

\* the list built by the two nested loops: per_type entries for each type
PositionList(type_count, per_type, epoch) ==
    [i \in 1..(type_count * per_type) |->
        [type |-> (i - 1) \div per_type, position |-> Sample(epoch, i)]]

\* spawning.rs line 68: particle_count / type_count
SpawnPerType(particle_count, type_count) == particle_count \div type_count

\* reset.rs line 481: (particle_count + type_count - 1) / type_count
ResetPerType(particle_count, type_count) ==
    (particle_count + type_count - 1) \div type_count

\* the children of every simulation after spawn_simulations_with_particles
ResetInit ==
    /\ reset_pc = "spawned"
    /\ r_type_count \in MinTypeCount..MaxTypeCount
    /\ r_particle_count \in MinParticleCount..MaxParticleCount
    /\ r_epoch = 0
    /\ particle_positions =
           PositionList(r_type_count,
                        SpawnPerType(r_particle_count, r_type_count), 0)
    /\ p_type = [s \in Sims |->
                    [k \in 1..Len(particle_positions) |->
                        particle_positions[k].type]]
    /\ p_translation = [s \in Sims |->
                           [k \in 1..Len(particle_positions) |->
                               particle_positions[k].position]]
    /\ p_velocity = [s \in Sims |->
                        [k \in 1..Len(particle_positions) |-> 0]]

\* the physics of an epoch moves a particle of a population
MoveParticle ==
    /\ reset_pc \in {"spawned", "running", "reset"}
    /\ \E s \in Sims, k \in 1..Len(p_type[1]), d \in 1..NumDrifts :
           /\ p_translation' = [p_translation EXCEPT ![s][k] = Drift(d)]
           /\ p_velocity' = [p_velocity EXCEPT ![s][k] = 1]
    /\ reset_pc' = "running"
    /\ UNCHANGED <<r_particle_count, r_type_count, r_epoch,
                   particle_positions, p_type>>
    /\ UNCHANGED nonResetVars

\* the repositioning loop of one simulation (lines 502-514)
Repositioned(types, translations, velocities, positions) ==
    [translation |->
         [k \in 1..Len(types) |->
             IF k <= Len(positions) /\ types[k] = positions[k].type
             THEN positions[k].position ELSE translations[k]],
     velocity |->
         [k \in 1..Len(types) |->
             IF k <= Len(positions) /\ types[k] = positions[k].type
             THEN 0 ELSE velocities[k]]]

\* reset_simulations_with_new_genomes at the boundary to the next epoch
ResetParticles ==
    /\ reset_pc \in {"spawned", "running", "reset"}
    /\ r_epoch < MaxEpoch
    /\ r_epoch' = r_epoch + 1
    /\ LET positions ==
               PositionList(r_type_count,
                            ResetPerType(r_particle_count, r_type_count),
                            r_epoch + 1)
       IN  /\ particle_positions' = positions
           /\ p_translation' =
                  [s \in Sims |->
                      Repositioned(p_type[s], p_translation[s],
                                   p_velocity[s], positions).translation]
           /\ p_velocity' =
                  [s \in Sims |->
                      Repositioned(p_type[s], p_translation[s],
                                   p_velocity[s], positions).velocity]
    /\ reset_pc' = "reset"
    /\ UNCHANGED <<r_particle_count, r_type_count, p_type>>
    /\ UNCHANGED nonResetVars

NextReset ==
    \/ MoveParticle
    \/ ResetParticles

InitReset ==
    /\ ResetInit
    /\ EvoIdle
    /\ FrameIdle
    /\ ExecIdle
    /\ PhysIdle
    /\ GenomeIdle
    /\ HistIdle
    /\ CallIdle
    /\ CfgIdle
    /\ FoodIdle
    /\ extract_runs = FALSE

SpecReset == InitReset /\ [][NextReset]_vars

\* C11: right after the reset of an epoch boundary every particle of every
\* population has velocity zero and a position of the freshly sampled
\* list, whatever particle_count and type_count are.
C11_AllParticlesReset ==
    reset_pc = "reset" =>
        \A s \in Sims : \A k \in 1..Len(p_type[s]) :
            /\ p_velocity[s][k] = 0
            /\ \E i \in 1..Len(particle_positions) :
                   p_translation[s][k] = particle_positions[i].position

\* C12: at the start of every epoch (after the spawn and after each reset)
\* the k-th particles of any two populations have the same type and the
\* same position.
C12_SameLayout ==
    reset_pc \in {"spawned", "reset"} =>
        \A s1 \in Sims, s2 \in Sims : \A k \in 1..Len(p_type[s1]) :
            /\ p_type[s1][k] = p_type[s2][k]
            /\ p_translation[s1][k] = p_translation[s2][k]

----------------------------------------------------------------------------
\* Genotype (SpecGenome, SpecGenomeApi): the force matrix, the food forces
\* and the stored strategy_coherence under the operations of
\* components/genotype.rs.  Forces are integers in steps of 0.05, the
\* coherence an integer in steps of 1/960, which is exact for type_count
\* up to 4.

ApiTypeCounts == MinTypeCount..MaxGenomeTypes

\* Genotype::new
MatrixSizeRow(type_count) == type_count

MatrixSize(type_count) == type_count * type_count

NewGenotype(type_count) ==
    [type_count |-> type_count,
     force_matrix |-> [i \in 1..MatrixSize(type_count) |-> 0],
     food_forces |-> [i \in 1..type_count |-> 0],
     strategy_coherence |-> CoherenceUnit]

\* get_force: the flat index alone is tested against the length
GetForce(g, type_a, type_b) ==
    LET index == type_a * g.type_count + type_b
    IN  IF index < Len(g.force_matrix) THEN g.force_matrix[index + 1] ELSE 0

\* get_food_force
GetFoodForce(g, particle_type) ==
    IF particle_type < Len(g.food_forces)
    THEN g.food_forces[particle_type + 1] ELSE 0

\* set_force: writes the entry, leaves strategy_coherence alone
SetForce(g, type_a, type_b, force) ==
    LET index == type_a * g.type_count + type_b
    IN  IF index < Len(g.force_matrix)
        THEN [g EXCEPT !.force_matrix[index + 1] = force]
        ELSE g

TypesOf(g) == 0..(g.type_count - 1)

\* check_oscillation_risk, in steps of 1/960 of its weight 0.2
CheckOscillationRisk(g) ==
    LET cycles == {c \in TypesOf(g) \X TypesOf(g) \X TypesOf(g) :
                      c[1] # c[2] /\ c[3] # c[1] /\ c[3] # c[2]}
        detected == {c \in cycles :
                        GetForce(g, c[1], c[2]) * GetForce(g, c[2], c[3])
                            * GetForce(g, c[3], c[1])
                        > (ForceUnit * ForceUnit * ForceUnit) \div 10}
    IN  IF Cardinality(cycles) > 0
        THEN (CoherenceUnit \div 5)
                 - ((CoherenceUnit \div 5) * Cardinality(detected))
                       \div Cardinality(cycles)
        ELSE CoherenceUnit \div 5

\* the reciprocity loop of calculate_strategy_coherence over the first n
\* pairs (i, j) in the order of the flat index, in steps of 0.05 / 4
RECURSIVE ReciprocitySum(_, _)
ReciprocitySum(g, n) ==
    IF n = 0 THEN 0
    ELSE LET i == (n - 1) \div g.type_count
             j == (n - 1) % g.type_count
         IN  (IF i # j
              THEN Max(0, 4 * ForceUnit
                            - Abs(GetForce(g, i, j) + GetForce(g, j, i)))
              ELSE 0)
             + ReciprocitySum(g, n - 1)

\* calculate_strategy_coherence
CalculateStrategyCoherence(g) ==
    LET total_checks == g.type_count * (g.type_count - 1)
        coherence_score ==
            ReciprocitySum(g, g.type_count * g.type_count)
        positive_food == Cardinality({i \in DOMAIN g.food_forces :
                                         g.food_forces[i] > 0})
        negative_food == Cardinality({i \in DOMAIN g.food_forces :
                                         g.food_forces[i] < 0})
        final_score ==
            IF total_checks > 0
            THEN (coherence_score * (CoherenceUnit \div 2))
                     \div (4 * ForceUnit * total_checks)
                 + (Min(positive_food, negative_food) * 3 * CoherenceUnit)
                       \div (10 * g.type_count)
                 + CheckOscillationRisk(g)
            ELSE CoherenceUnit \div 2
    IN  Max(0, Min(CoherenceUnit, final_score))

\* self.strategy_coherence = self.calculate_strategy_coherence(), for each
\* genome of a set of outcomes
Recomputed(outcomes) ==
    {[g EXCEPT !.strategy_coherence = CalculateStrategyCoherence(g)] :
        g \in outcomes}

\* generate_candidate: the diagonal in [-1.0, -0.1], the other entries and
\* the food forces in [-1.0, 1.0]; a family of such draws
CandidateDraws ==
    {[d |-> -ForceUnit, u |-> ForceUnit, l |-> -ForceUnit, f |-> ForceUnit],
     [d |-> -ForceUnit, u |-> ForceUnit, l |-> ForceUnit, f |-> ForceUnit],
     [d |-> -(ForceUnit \div 10), u |-> 0, l |-> -ForceUnit, f |-> 0],
     [d |-> -(ForceUnit \div 10), u |-> ForceUnit, l |-> ForceUnit, f |-> 0]}

Candidates(type_count) ==
    {[type_count |-> type_count,
      force_matrix |-> [i \in 1..MatrixSize(type_count) |->
          LET type_a == (i - 1) \div type_count
              type_b == (i - 1) % type_count
          IN  IF type_a = type_b THEN c.d
              ELSE IF type_a < type_b THEN c.u ELSE c.l],
      food_forces |-> [i \in 1..type_count |->
                          IF i % 2 = 1 THEN c.f ELSE -c.f],
      strategy_coherence |-> CoherenceUnit] : c \in CandidateDraws}

\* Genotype::random: the most coherent of 5 candidates, with its coherence
RandomGenotypes(type_count) ==
    Recomputed({x \in Candidates(type_count) :
                   CalculateStrategyCoherence(x) > 0})

\* the clamp of mutate
ClampNone(v) == v

ClampForce(v) == Max(-(2 * ForceUnit), Min(2 * ForceUnit, v))

\* the draws that change no entry or one entry of a genome
EntryChoices(g) ==
    {[matrix |-> {}, food |-> {}]}
    \cup {[matrix |-> {i}, food |-> {}] : i \in DOMAIN g.force_matrix}
    \cup {[matrix |-> {}, food |-> {i}] : i \in DOMAIN g.food_forces}

\* mutate: the entries in matrix_set and food_set pass the rate test, each
\* with a mutation at the end of the amplitude range given by sign
MutateWith(g, matrix_set, food_set, sign) ==
    LET mutation_amplitude ==
            IF 10 * g.strategy_coherence > 7 * CoherenceUnit
            THEN ForceUnit \div 10 ELSE ForceUnit \div 5
        mutation == sign * mutation_amplitude
        mutated ==
            [g EXCEPT
               !.force_matrix = [i \in DOMAIN g.force_matrix |->
                   IF i \in matrix_set
                   THEN LET old_value == g.force_matrix[i]
                        IN  ClampForce(old_value
                                + (IF 2 * Abs(old_value) > ForceUnit
                                   THEN mutation \div 2 ELSE mutation))
                   ELSE g.force_matrix[i]],
               !.food_forces = [i \in DOMAIN g.food_forces |->
                   IF i \in food_set
                   THEN ClampForce(g.food_forces[i] + mutation)
                   ELSE g.food_forces[i]]]
    IN  mutated

\* mutate, with the recomputation of the coherence that ends it
Mutations(g) ==
    Recomputed({MutateWith(g, e.matrix, e.food, sign) :
                   e \in EntryChoices(g), sign \in {-1, 1}})

\* symmetric_crossover: each pair of types, each diagonal entry and the
\* food forces as a block from one parent
SymmetricCrossover(a, b) ==
    Recomputed({
        [type_count |-> a.type_count,
         force_matrix |-> [i \in 1..MatrixSize(a.type_count) |->
             LET type_a == (i - 1) \div a.type_count
                 type_b == (i - 1) % a.type_count
                 use_parent1 ==
                     IF type_a = type_b THEN diag[type_a]
                     ELSE pair[<<Min(type_a, type_b), Max(type_a, type_b)>>]
             IN  IF use_parent1 THEN GetForce(a, type_a, type_b)
                 ELSE GetForce(b, type_a, type_b)],
         food_forces |-> IF food THEN a.food_forces ELSE b.food_forces,
         strategy_coherence |-> CoherenceUnit] :
        pair \in [{p \in TypesOf(a) \X TypesOf(a) : p[1] < p[2]} -> BOOLEAN],
        diag \in [TypesOf(a) -> BOOLEAN],
        food \in BOOLEAN})

\* type_block_crossover: the row and the food force of a type from one parent
TypeBlockCrossover(a, b) ==
    Recomputed({
        [type_count |-> a.type_count,
         force_matrix |-> [i \in 1..MatrixSize(a.type_count) |->
             LET type_i == (i - 1) \div a.type_count
                 type_j == (i - 1) % a.type_count
             IN  IF use_parent1[type_i] THEN GetForce(a, type_i, type_j)
                 ELSE GetForce(b, type_i, type_j)],
         food_forces |-> [i \in 1..a.type_count |->
             IF use_parent1[i - 1] THEN a.food_forces[i]
             ELSE b.food_forces[i]],
         strategy_coherence |-> CoherenceUnit] :
        use_parent1 \in [TypesOf(a) -> BOOLEAN]})

\* adaptive_crossover: a clone of the more coherent parent with entries of
\* the other one
AdaptiveCrossover(a, b) ==
    LET primary == IF a.strategy_coherence > b.strategy_coherence
                   THEN a ELSE b
        secondary == IF a.strategy_coherence > b.strategy_coherence
                     THEN b ELSE a
    IN  Recomputed({
            [primary EXCEPT
               !.force_matrix = [i \in DOMAIN a.force_matrix |->
                   IF i \in e.matrix THEN secondary.force_matrix[i]
                   ELSE primary.force_matrix[i]],
               !.food_forces = [i \in DOMAIN a.food_forces |->
                   IF i \in e.food THEN secondary.food_forces[i]
                   ELSE primary.food_forces[i]]] :
            e \in EntryChoices(a)})

\* crossover with the test for TypeBlocks ahead of the one for
\* SymmetricRelations
CrossoverBlocksFirst(a, b) ==
    IF \/ 2 * a.strategy_coherence > CoherenceUnit
       \/ 2 * b.strategy_coherence > CoherenceUnit
    THEN TypeBlockCrossover(a, b)
    ELSE IF /\ 10 * a.strategy_coherence > 7 * CoherenceUnit
            /\ 10 * b.strategy_coherence > 7 * CoherenceUnit
         THEN SymmetricCrossover(a, b)
         ELSE AdaptiveCrossover(a, b)

\* crossover: the strategy follows the stored coherence of the parents
Crossover(a, b) ==
    IF /\ 10 * a.strategy_coherence > 7 * CoherenceUnit
       /\ 10 * b.strategy_coherence > 7 * CoherenceUnit
    THEN SymmetricCrossover(a, b)
    ELSE IF \/ 2 * a.strategy_coherence > CoherenceUnit
            \/ 2 * b.strategy_coherence > CoherenceUnit
         THEN TypeBlockCrossover(a, b)
         ELSE AdaptiveCrossover(a, b)

\* set_interesting_forces, for the type counts of ApiTypeCounts (4 types
\* have a table of their own)
InterestingForces(g) ==
    LET cleared == [g EXCEPT
                      !.force_matrix = [i \in DOMAIN g.force_matrix |-> 0],
                      !.food_forces = [i \in DOMAIN g.food_forces |-> 0]]
        rock_paper_scissors ==
            [SetForce(SetForce(SetForce(SetForce(SetForce(SetForce(SetForce(
             SetForce(SetForce(cleared,
                 0, 1, ForceUnit), 1, 2, ForceUnit), 2, 0, ForceUnit),
                 1, 0, -(ForceUnit \div 2)), 2, 1, -(ForceUnit \div 2)),
                 0, 2, -(ForceUnit \div 2)),
                 0, 0, -((3 * ForceUnit) \div 10)),
                 1, 1, -((3 * ForceUnit) \div 10)),
                 2, 2, -((3 * ForceUnit) \div 10))
             EXCEPT !.food_forces = <<(8 * ForceUnit) \div 10,
                                      -((3 * ForceUnit) \div 10),
                                      ForceUnit \div 2>>]
        validated ==
            {cleared} \cup
            {[cleared EXCEPT !.force_matrix = c.force_matrix,
                             !.food_forces = c.food_forces] :
                c \in {x \in Candidates(g.type_count) :
                          2 * CalculateStrategyCoherence(x) > CoherenceUnit}}
    IN  IF g.type_count = 3 THEN Recomputed({rock_paper_scissors})
        ELSE Recomputed(validated)

NoLookup == [kind |-> "none", type_a |-> 0, type_b |-> 0, result |-> 0]

\* a genome that the mutations of earlier epochs have moved to the limits
AgedGenotypes(type_count) ==
    Recomputed({[c EXCEPT !.force_matrix[2] = v, !.food_forces[1] = -v] :
                   c \in RandomGenotypes(type_count),
                   v \in {2 * ForceUnit - 1, 2 * ForceUnit}})

\* the genomes of a population some epochs after the spawn
GenomeInit ==
    /\ genome \in RandomGenotypes(MinTypeCount)
                     \cup AgedGenotypes(MinTypeCount)
    /\ mate \in RandomGenotypes(MinTypeCount)
    /\ ops_left = MaxGenomeOps
    /\ last_op = "random"
    /\ lookup = NoLookup

GenomeStep(g, op) ==
    /\ ops_left > 0
    /\ ops_left' = ops_left - 1
    /\ genome' = g
    /\ last_op' = op
    /\ UNCHANGED <<mate, lookup>>
    /\ UNCHANGED nonGenomeVars

\* Genotype::random
GenomeRandom ==
    \E g \in RandomGenotypes(genome.type_count) : GenomeStep(g, "random")

\* parent1.crossover(parent2) of the reproduction loop
GenomeCrossover ==
    \E g \in Crossover(genome, mate) : GenomeStep(g, "crossover")

\* offspring.mutate(rate)
GenomeMutate ==
    \E g \in Mutations(genome) : GenomeStep(g, "mutate")

\* *genotype = new_genomes[sim_index].clone()
GenomeReplace ==
    /\ mate.type_count = genome.type_count
    /\ GenomeStep(mate, "replace")

NextGenome ==
    \/ GenomeRandom
    \/ GenomeCrossover
    \/ GenomeMutate
    \/ GenomeReplace

InitGenome ==
    /\ GenomeInit
    /\ EvoIdle
    /\ FrameIdle
    /\ ExecIdle
    /\ PhysIdle
    /\ ResetIdle
    /\ HistIdle
    /\ CallIdle
    /\ CfgIdle
    /\ FoodIdle
    /\ extract_runs = FALSE

SpecGenome == InitGenome /\ [][NextGenome]_vars

\* C15: starting from Genotype::random, after any sequence of crossover,
\* mutate and per-epoch replacement every entry of the force matrix and of
\* the food forces lies in [-2.0, 2.0].
C15_ForcesWithinLimits ==
    /\ \A i \in DOMAIN genome.force_matrix :
           /\ genome.force_matrix[i] >= -(2 * ForceUnit)
           /\ genome.force_matrix[i] <= 2 * ForceUnit
    /\ \A i \in DOMAIN genome.food_forces :
           /\ genome.food_forces[i] >= -(2 * ForceUnit)
           /\ genome.food_forces[i] <= 2 * ForceUnit

\* a mutation has acted on a genome and left an entry at the limit
C15_Witness ==
    /\ last_op = "mutate"
    /\ ops_left = 0
    /\ \E i \in DOMAIN genome.force_matrix :
           genome.force_matrix[i] = 2 * ForceUnit
    /\ \E i \in DOMAIN genome.food_forces :
           genome.food_forces[i] = -(2 * ForceUnit)

----------------------------------------------------------------------------
\* The interface of Genotype (SpecGenomeApi): the operations above and
\* new, set_force, set_interesting_forces, get_force and get_food_force,
\* called with type indices up to type_count.

\* forces written through set_force
SetForceValues == {-ForceUnit, 3 * ForceUnit}

ApiInit ==
    /\ \E tc \in ApiTypeCounts :
           /\ genome \in RandomGenotypes(tc)
           /\ mate = CHOOSE g \in RandomGenotypes(tc) :
                         \A h \in RandomGenotypes(tc) :
                             g.strategy_coherence >= h.strategy_coherence
    /\ ops_left = MaxApiOps
    /\ last_op = "random"
    /\ lookup = NoLookup

\* Genotype::new
GenomeNew ==
    /\ genome.type_count \in ApiTypeCounts
    /\ GenomeStep(NewGenotype(genome.type_count), "new")

\* genotype.set_force(type_a, type_b, force)
GenomeSetForce ==
    \E type_a \in 0..genome.type_count, type_b \in 0..genome.type_count,
       force \in SetForceValues :
        GenomeStep(SetForce(genome, type_a, type_b, force), "set_force")

\* genotype.set_interesting_forces()
GenomeSetInteresting ==
    \E g \in InterestingForces(genome) : GenomeStep(g, "interesting")

\* genotype.get_force(type_a, type_b)
GenomeGetForce ==
    /\ ops_left > 0
    /\ ops_left' = ops_left - 1
    /\ \E type_a \in 0..genome.type_count, type_b \in 0..genome.type_count :
           lookup' = [kind |-> "force", type_a |-> type_a, type_b |-> type_b,
                      result |-> GetForce(genome, type_a, type_b)]
    /\ last_op' = "get_force"
    /\ UNCHANGED <<genome, mate>>
    /\ UNCHANGED nonGenomeVars

\* genotype.get_food_force(particle_type)
GenomeGetFoodForce ==
    /\ ops_left > 0
    /\ ops_left' = ops_left - 1
    /\ \E particle_type \in 0..genome.type_count :
           lookup' = [kind |-> "food", type_a |-> particle_type,
                      type_b |-> 0,
                      result |-> GetFoodForce(genome, particle_type)]
    /\ last_op' = "get_food_force"
    /\ UNCHANGED <<genome, mate>>
    /\ UNCHANGED nonGenomeVars

NextApi ==
    \/ GenomeRandom
    \/ GenomeCrossover
    \/ GenomeMutate
    \/ GenomeReplace
    \/ GenomeNew
    \/ GenomeSetForce
    \/ GenomeSetInteresting
    \/ GenomeGetForce
    \/ GenomeGetFoodForce

InitApi ==
    /\ ApiInit
    /\ EvoIdle
    /\ FrameIdle
    /\ ExecIdle
    /\ PhysIdle
    /\ ResetIdle
    /\ HistIdle
    /\ CallIdle
    /\ CfgIdle
    /\ FoodIdle
    /\ extract_runs = FALSE

SpecGenomeApi == InitApi /\ [][NextApi]_vars

\* C13: force_matrix holds type_count * type_count entries and food_forces
\* type_count entries, after new and random and after every crossover
\* strategy, mutate, set_force, set_interesting_forces and replacement.
C13_LengthsMatchTypeCount ==
    /\ Len(genome.force_matrix) = genome.type_count * genome.type_count
    /\ Len(genome.food_forces) = genome.type_count

\* set_force has written an entry of a genome of three types
C13_Witness ==
    /\ last_op = "set_force"
    /\ genome.type_count = 3
    /\ genome.force_matrix[9] = 3 * ForceUnit
    /\ Len(genome.force_matrix) = 9

\* C14: get_force returns 0.0 whenever one of its type indices is not below
\* type_count, and get_food_force returns 0.0 for a type that is not below
\* type_count.
C14_OutOfRangeIsZero ==
    /\ (/\ lookup.kind = "force"
        /\ (lookup.type_a >= genome.type_count
               \/ lookup.type_b >= genome.type_count))
           => lookup.result = 0
    /\ (lookup.kind = "food" /\ lookup.type_a >= genome.type_count)
           => lookup.result = 0

\* C16: after every operation that changes the forces the stored
\* strategy_coherence is the value calculate_strategy_coherence gives for
\* the genome.
C16_StoredCoherenceCurrent ==
    genome.strategy_coherence = CalculateStrategyCoherence(genome)

----------------------------------------------------------------------------
\* C18: every genome of the next generation that is not an elite either
\* has a coherence of at least the threshold or is a fresh random genome.
C18_OffspringCoherentOrRandom ==
    \A i \in 1..Len(new_population) :
        new_population[i].kind = "offspring" => new_population[i].coh = "ok"

----------------------------------------------------------------------------
\* The evolution step on degenerate inputs (SpecEvoDegenerate): no
\* simulation, one simulation, simulations that own no particle.

\* the simulations the query (&SimulationId, &mut Genotype, &mut Score,
\* &Children) of reset_for_new_epoch matches: a simulation spawned without
\* a particle has children only in a build whose with_children leaves an
\* empty Children component behind
QueriedSimulations(n, particles_per_simulation) ==
    IF particles_per_simulation = 0 THEN {0, n} ELSE {n}

DegenerateInit ==
    /\ evo_pc = "sort"
    /\ target_size \in 0..NumSims
    /\ elite_tenths \in EliteRatios
    /\ diversity_low \in BOOLEAN
    /\ \E particles \in 0..1, spat \in ScorePatterns,
          cpat \in CoherencePatterns :
           \E queried \in QueriedSimulations(target_size, particles) :
               scored_genomes = CollectGenomes(queried, spat, cpat)
    /\ new_population = <<>>
    /\ inject_left = 0
    /\ generation = <<>>

\* the diversity injection needs more than two genomes and is left out
NextDegenerate ==
    \/ SortScored
    \/ Elitism
    \/ Reproduce
    \/ EndReproduction
    \/ ApplyGenomes

InitDegenerate ==
    /\ DegenerateInit
    /\ FrameIdle
    /\ ExecIdle
    /\ PhysIdle
    /\ ResetIdle
    /\ GenomeIdle
    /\ HistIdle
    /\ CallIdle
    /\ CfgIdle
    /\ FoodIdle
    /\ extract_runs = FALSE

SpecEvoDegenerate == InitDegenerate /\ [][NextDegenerate]_vars

----------------------------------------------------------------------------
\* fitness_history (SpecHistory): collect_and_evaluate_genomes pushes the
\* score of the epoch on a copy of every genome; the next generation is
\* made of clones of these copies (elites, tournament clones, the primary
\* parent of adaptive_crossover) and of genomes built by Genotype::new
\* (random genomes, the other crossover children), whose history is empty.

ExceedsCapNever(len) == FALSE

ExceedsCap(len) == len > HistoryCap

\* update_fitness_history
UpdateFitnessHistory(history, fitness) ==
    LET longer == Append(history, fitness)
    IN  IF ExceedsCap(Len(longer)) THEN Tail(longer) ELSE longer

\* the score a simulation reaches in an epoch
EpochScore(sim, epoch) == epoch * sim

\* genomes of spawn_simulations_with_particles
HistInit ==
    /\ hist_pc = "running"
    /\ hist_epoch = 1
    /\ fitness_history = [s \in Sims |-> << >>]
    /\ pushed_values = [s \in Sims |-> << >>]

\* collect_and_evaluate_genomes at the boundary of an epoch
CollectAndEvaluate ==
    /\ hist_pc = "running"
    /\ hist_epoch <= MaxHistoryEpochs
    /\ fitness_history' =
           [s \in Sims |-> UpdateFitnessHistory(fitness_history[s],
                                                EpochScore(s, hist_epoch))]
    /\ pushed_values' =
           [s \in Sims |-> Append(pushed_values[s], EpochScore(s, hist_epoch))]
    /\ hist_pc' = "scored"
    /\ UNCHANGED hist_epoch
    /\ UNCHANGED nonHistVars

\* generate_improved_population and reset_simulations_with_new_genomes:
\* every simulation takes a clone of a scored genome or a genome with an
\* empty history
NextGeneration ==
    /\ hist_pc = "scored"
    /\ \E source \in [Sims -> Sims \cup {0}] :
           /\ fitness_history' =
                  [s \in Sims |-> IF source[s] = 0 THEN << >>
                                  ELSE fitness_history[source[s]]]
           /\ pushed_values' =
                  [s \in Sims |-> IF source[s] = 0 THEN << >>
                                  ELSE pushed_values[source[s]]]
    /\ hist_epoch' = hist_epoch + 1
    /\ hist_pc' = "running"
    /\ UNCHANGED nonHistVars

NextHistory ==
    \/ CollectAndEvaluate
    \/ NextGeneration

InitHistory ==
    /\ HistInit
    /\ EvoIdle
    /\ FrameIdle
    /\ ExecIdle
    /\ PhysIdle
    /\ ResetIdle
    /\ GenomeIdle
    /\ CallIdle
    /\ CfgIdle
    /\ FoodIdle
    /\ extract_runs = FALSE

SpecHistory == InitHistory /\ [][NextHistory]_vars

\* the last n entries of a sequence
LastEntries(seq, n) ==
    SubSeq(seq, Max(1, Len(seq) - n + 1), Len(seq))

\* C17: the fitness_history of every genome holds at most 10 entries, and
\* they are the most recently pushed values in the order of the pushes,
\* through any number of epochs and through cloning.
C17_HistoryIsRecentPushes ==
    \A s \in Sims :
        /\ Len(fitness_history[s]) <= 10
        /\ fitness_history[s] = LastEntries(pushed_values[s], 10)

\* a genome cloned through more than ten epochs has just been pushed on
C17_Witness ==
    /\ hist_pc = "scored"
    /\ \E s \in Sims :
           /\ Len(pushed_values[s]) > 10
           /\ Len(fitness_history[s]) = 10
           /\ fitness_history[s][1] # pushed_values[s][1]

\* ---------------------------------------------------------------------------
\* SpecCalls: functions of the program applied to arguments drawn from
\* bounded families.
\* ---------------------------------------------------------------------------

\* an f32 read from a file: a finite value in steps of 0.05, or NaN (v = 0),
\* +inf (v = 1), -inf (v = -1)
Fin(v) == [fin |-> TRUE, v |-> v]

NotANumber == [fin |-> FALSE, v |-> 0]

Infinity == [fin |-> FALSE, v |-> 1]

\* f32::is_finite
IsFinite(x) == x.fin

\* x < bound and x > bound of f32, bound finite: false for NaN
FloatLess(x, bound) == IF x.fin THEN x.v < bound ELSE x.v < 0

FloatGreater(x, bound) == IF x.fin THEN x.v > bound ELSE x.v > 0

\* !force.is_finite() || force < -3.0 || force > 3.0
ForceRejected(force) ==
    \/ ~IsFinite(force)
    \/ FloatLess(force, 0 - 3 * ForceUnit)
    \/ FloatGreater(force, 3 * ForceUnit)

\* SavedPopulation::validate_integrity
ValidateIntegrity(p) ==
    LET g == p.genotype
    IN  IF Len(g.force_matrix) # g.type_count * g.type_count THEN "Err"
        ELSE IF Len(g.food_forces) # g.type_count THEN "Err"
        ELSE IF \E i \in DOMAIN g.force_matrix : ForceRejected(g.force_matrix[i])
             THEN "Err"
        ELSE IF \E i \in DOMAIN g.food_forces : ForceRejected(g.food_forces[i])
             THEN "Err"
        ELSE IF g.strategy_coherence < 0 \/ g.strategy_coherence > CoherenceUnit
             THEN "Err"
        ELSE "Ok"

\* the Genotype built from a validated file, its values finite
GenotypeOfSaved(g) ==
    [type_count |-> g.type_count,
     force_matrix |-> [i \in DOMAIN g.force_matrix |-> g.force_matrix[i].v],
     food_forces |-> [i \in DOMAIN g.food_forces |-> g.food_forces[i].v],
     strategy_coherence |-> 0]

\* load_all_populations, lines 748-761: the coherence of a validated file is
\* computed again when the file holds 0.0
RepairCoherence(p) ==
    IF p.genotype.strategy_coherence = 0
    THEN LET c == CalculateStrategyCoherence(GenotypeOfSaved(p.genotype))
         IN  [p EXCEPT !.genotype.strategy_coherence = c,
                       !.coherence_score = c]
    ELSE p

\* a.score * 0.7 + a.genetic_metrics.coherence_score * 30.0, times
\* 10 * CoherenceUnit
SavedSortKey(p) == 7 * CoherenceUnit * p.score + 300 * p.coherence_score

\* populations.sort_by, descending and stable
RECURSIVE SortPopulations(_)
SortPopulations(populations) ==
    IF Len(populations) <= 1 THEN populations
    ELSE LET n == Len(populations)
             sorted == SortPopulations(SubSeq(populations, 1, n - 1))
             last == populations[n]
             ahead == Cardinality({i \in DOMAIN sorted :
                          SavedSortKey(sorted[i]) >= SavedSortKey(last)})
         IN  SubSeq(sorted, 1, ahead) \o <<last>>
                 \o SubSeq(sorted, ahead + 1, n - 1)

\* the loop over the files of the directory: a file that validates is pushed
RECURSIVE LoadLoop(_)
LoadLoop(files) ==
    IF files = << >> THEN << >>
    ELSE LET n == Len(files)
             before == LoadLoop(SubSeq(files, 1, n - 1))
         IN  IF ValidateIntegrity(files[n]) = "Ok"
             THEN Append(before, RepairCoherence(files[n]))
             ELSE before

\* load_all_populations
LoadAllPopulations(files) == SortPopulations(LoadLoop(files))

\* values a file can hold: -3.5, -2.5, 0.0, 2.5, 3.0, 3.5, NaN, +inf
FloatSamples ==
    {Fin(0 - 7 * (ForceUnit \div 2)), Fin(0 - 5 * (ForceUnit \div 2)), Fin(0),
     Fin(5 * (ForceUnit \div 2)), Fin(3 * ForceUnit),
     Fin(7 * (ForceUnit \div 2)), NotANumber, Infinity}

\* a saved genome of the given lengths whose first matrix entry or first food
\* force is x, the other entries 0.0
SavedGenotypeOf(tc, matrix_len, food_len, x, slot, coherence) ==
    [type_count |-> tc,
     force_matrix |-> [i \in 1..matrix_len |->
                          IF i = 1 /\ slot = "matrix" THEN x ELSE Fin(0)],
     food_forces |-> [i \in 1..food_len |->
                         IF i = 1 /\ slot = "food" THEN x ELSE Fin(0)],
     strategy_coherence |-> coherence]

\* genomes of files written by hand or by another version: right lengths and
\* any value, wrong lengths, or a coherence outside [0, 1]
SavedGenotypes ==
    {SavedGenotypeOf(tc, tc * tc, tc, x, slot, c) :
        tc \in 1..2, x \in FloatSamples, slot \in {"matrix", "food"},
        c \in {0, CoherenceUnit \div 2}}
    \cup {SavedGenotypeOf(tc, tc * tc + dm, tc + df, Fin(0), "matrix",
                          CoherenceUnit \div 2) :
        tc \in 1..2, dm \in {-1, 0, 1}, df \in {-1, 0, 1}}
    \cup {SavedGenotypeOf(tc, tc * tc, tc, Fin(0), "matrix",
                          CoherenceUnit + CoherenceUnit \div 2) : tc \in 1..2}

SavedPopulations ==
    {[genotype |-> g, score |-> s, coherence_score |-> g.strategy_coherence] :
        g \in SavedGenotypes, s \in {0, 1}}

\* the .json files of the directory populations, in the order of read_dir
Directories ==
    {<<f>> : f \in SavedPopulations}
    \cup {<<f, g>> : f \in SavedPopulations, g \in SavedPopulations}

CallInit == CallIdle

LoadCall ==
    /\ call_fn = "none"
    /\ \E files \in Directories :
           /\ call_fn' = "load_all_populations"
           /\ call_args' = files
           /\ call_result' = LoadAllPopulations(files)
    /\ UNCHANGED nonCallVars

\* the axes of a Vec3
Axes == 1..3

\* coordinates of the points handed to torus_distance and apply_bounds
Coords == (0 - MaxCoord)..MaxCoord

Points == [Axes -> Coords]

\* self.grid_bounds: None, or Some((width, height, depth))
GridBoundsChoices == {<<>>} \cup [Axes -> {1, 3}]

\* the squared Euclidean distance of pos1.distance(pos2)
DistanceSquared(pos1, pos2) ==
    (pos2[1] - pos1[1]) * (pos2[1] - pos1[1])
        + (pos2[2] - pos1[2]) * (pos2[2] - pos1[2])
        + (pos2[3] - pos1[3]) * (pos2[3] - pos1[3])

\* let dx = pos2.x - pos1.x, the absolute value forgotten
TorusAxisSigned(a, b, extent) == Min(b - a, extent - (b - a))

\* let dx = (pos2.x - pos1.x).abs(); let min_dx = dx.min(width - dx)
TorusAxis(a, b, extent) == Min(Abs(b - a), extent - Abs(b - a))

\* TorusNeighborCache::torus_distance in three dimensions, squared: the
\* square root taken at the end is monotone
TorusDistanceSquared(pos1, pos2, grid_bounds) ==
    IF grid_bounds = << >>
    THEN DistanceSquared(pos1, pos2)
    ELSE LET min_dx == TorusAxis(pos1[1], pos2[1], grid_bounds[1])
             min_dy == TorusAxis(pos1[2], pos2[2], grid_bounds[2])
             min_dz == TorusAxis(pos1[3], pos2[3], grid_bounds[3])
         IN  min_dx * min_dx + min_dy * min_dy + min_dz * min_dz

TorusDistanceCall ==
    /\ call_fn = "none"
    /\ \E pos1 \in Points, pos2 \in Points, grid_bounds \in GridBoundsChoices :
           /\ call_fn' = "torus_distance"
           /\ call_args' = [pos1 |-> pos1, pos2 |-> pos2,
                            grid_bounds |-> grid_bounds]
           /\ call_result' = TorusDistanceSquared(pos1, pos2, grid_bounds)
    /\ UNCHANGED nonCallVars

\* coordinates around the faces of the domain, and velocity components
BoundCoords == {-6, -5, -1, 0, 1, 5, 6}

BoundVelocities == {-2, 2}

\* GridParameters: width, height and depth
GridExtents == [Axes -> {8, 10}]

\* one axis of GridParameters::apply_bounds, half_width the limit
BounceAxisNoRadius(position, velocity, extent) ==
    LET half_width == extent \div 2
    IN  IF Abs(position) > half_width
        THEN [pos |-> Sign(position) * half_width,
              vel |-> 0 - Sign(velocity) * (Abs(velocity) \div 2)]
        ELSE [pos |-> position, vel |-> velocity]

\* one axis of GridParameters::apply_bounds:
\* if position.x.abs() > half_width - PARTICLE_RADIUS {
\*     position.x = position.x.signum() * (half_width - PARTICLE_RADIUS);
\*     velocity.x *= -COLLISION_DAMPING; }
BounceAxis(position, velocity, extent) ==
    LET half_width == extent \div 2
    IN  IF Abs(position) > half_width - ParticleRadius
        THEN [pos |-> Sign(position) * (half_width - ParticleRadius),
              vel |-> 0 - Sign(velocity) * (Abs(velocity) \div 2)]
        ELSE [pos |-> position, vel |-> velocity]

\* toroidal mode, one axis: the position wraps by the extent and comes back
\* on the side it left, the velocity reflected
TeleportAxisReflect(position, velocity, extent) ==
    LET half_width == extent \div 2
    IN  IF position >= half_width \/ position < 0 - half_width
        THEN [pos |-> 0 - (((position + half_width) % extent) - half_width),
              vel |-> 0 - velocity]
        ELSE [pos |-> position, vel |-> velocity]

\* toroidal mode, one axis: the position wraps modulo the extent
TeleportAxis(position, velocity, extent) ==
    LET half_width == extent \div 2
    IN  [pos |-> ((position + half_width) % extent) - half_width,
         vel |-> velocity]

\* grid.apply_bounds(&mut transform.translation, &mut velocity.0, mode)
ApplyBounds3(position, velocity, extents, mode) ==
    LET axis == [a \in Axes |->
                    IF mode = "Teleport"
                    THEN TeleportAxis(position[a], velocity[a], extents[a])
                    ELSE BounceAxis(position[a], velocity[a], extents[a])]
    IN  [position |-> [a \in Axes |-> axis[a].pos],
         velocity |-> [a \in Axes |-> axis[a].vel]]

ApplyBoundsCall ==
    /\ call_fn = "none"
    /\ \E position \in [Axes -> BoundCoords],
          velocity \in [Axes -> BoundVelocities],
          extents \in GridExtents, mode \in {"Bounce", "Teleport"} :
           /\ call_fn' = "apply_bounds"
           /\ call_args' = [position |-> position, velocity |-> velocity,
                            extents |-> extents, mode |-> mode]
           /\ call_result' = ApplyBounds3(position, velocity, extents, mode)
    /\ UNCHANGED nonCallVars

\* two parents of three types whose entries differ at every index, each with
\* a stored coherence of 0.25, 0.6, 0.7 or 0.8
CrossoverParents ==
    {[type_count |-> 3,
      force_matrix |-> [i \in 1..9 |-> sign * i],
      food_forces |-> [i \in 1..3 |-> sign * i],
      strategy_coherence |-> c] :
        sign \in {-1, 1},
        c \in {CoherenceUnit \div 4, (6 * CoherenceUnit) \div 10,
               (7 * CoherenceUnit) \div 10, (8 * CoherenceUnit) \div 10}}

CrossoverCall ==
    /\ call_fn = "none"
    /\ \E a \in CrossoverParents, b \in CrossoverParents :
           /\ a.force_matrix # b.force_matrix
           /\ \E child \in Crossover(a, b) :
                  /\ call_fn' = "crossover"
                  /\ call_args' = [self |-> a, other |-> b]
                  /\ call_result' = child
    /\ UNCHANGED nonCallVars

\* EpochStats::default()
EpochStatsDefault == [best_score |-> 0, worst_score |-> 0]

\* Iterator::max_by over the tournament: of several greatest members the
\* last one
RECURSIVE MaxByCombinedFitness(_, _)
MaxByCombinedFitness(tournament, stats) ==
    IF Len(tournament) = 1 THEN tournament[1]
    ELSE LET n == Len(tournament)
             best == MaxByCombinedFitness(SubSeq(tournament, 1, n - 1), stats)
         IN  IF CombinedFitness(tournament[n], stats)
                    >= CombinedFitness(best, stats)
             THEN tournament[n] ELSE best

\* enhanced_tournament_selection, the members drawn by the weighted sampling
\* given: the winner is chosen with let stats = EpochStats::default()
EnhancedTournamentSelection(population, drawn) ==
    MaxByCombinedFitness([k \in DOMAIN drawn |-> population[drawn[k]]],
                         EpochStatsDefault)

\* the ranked populations of an epoch
RankedPopulations ==
    {SortByCombinedFitness(CollectGenomes(n, spat, cpat), n,
                           EpochStats(CollectGenomes(n, spat, cpat))) :
        n \in 1..TournamentSize, spat \in ScorePatterns,
        cpat \in CoherencePatterns}

TournamentCall ==
    /\ call_fn = "none"
    /\ \E population \in RankedPopulations :
           \E drawn \in [1..Min(TournamentSize, Len(population))
                            -> 1..Len(population)] :
               /\ call_fn' = "enhanced_tournament_selection"
               /\ call_args' = [population |-> population, drawn |-> drawn]
               /\ call_result' = EnhancedTournamentSelection(population, drawn)
    /\ UNCHANGED nonCallVars

NextCalls ==
    \/ LoadCall
    \/ TorusDistanceCall
    \/ ApplyBoundsCall
    \/ CrossoverCall
    \/ TournamentCall

InitCalls ==
    /\ CallInit
    /\ EvoIdle
    /\ FrameIdle
    /\ ExecIdle
    /\ PhysIdle
    /\ ResetIdle
    /\ GenomeIdle
    /\ HistIdle
    /\ CfgIdle
    /\ FoodIdle
    /\ extract_runs = FALSE

SpecCalls == InitCalls /\ [][NextCalls]_vars

\* the lengths of a saved genome match its type_count and every value is a
\* finite number within [-2.0, 2.0]
WellFormedSaved(g) ==
    /\ Len(g.force_matrix) = g.type_count * g.type_count
    /\ Len(g.food_forces) = g.type_count
    /\ \A i \in DOMAIN g.force_matrix :
           /\ g.force_matrix[i].fin
           /\ g.force_matrix[i].v >= 0 - 2 * ForceUnit
           /\ g.force_matrix[i].v <= 2 * ForceUnit
    /\ \A i \in DOMAIN g.food_forces :
           /\ g.food_forces[i].fin
           /\ g.food_forces[i].v >= 0 - 2 * ForceUnit
           /\ g.food_forces[i].v <= 2 * ForceUnit

\* C21: no genome of the list returned by load_all_populations has a force
\* matrix whose length differs from type_count squared, food forces whose
\* length differs from type_count, a non-finite value or a value outside
\* [-2.0, 2.0]
C21_MalformedNeverLoaded ==
    call_fn = "load_all_populations" =>
        \A i \in DOMAIN call_result : WellFormedSaved(call_result[i].genotype)

\* ---------------------------------------------------------------------------
\* SpecConfig: the genetic parameters from the main menu to the epoch
\* boundaries. Rates are counted in hundredths.
\* ---------------------------------------------------------------------------

\* MenuConfig::default: DEFAULT_ELITE_RATIO 0.3, DEFAULT_MUTATION_RATE 0.15,
\* DEFAULT_CROSSOVER_RATE 0.25, max_epochs 100
MenuConfigDefault(simulation_count) ==
    [elite_ratio |-> 30, mutation_rate |-> 15, crossover_rate |-> 25,
     simulation_count |-> simulation_count, max_epochs |-> 100]

\* values within the ranges of the three DragValues: 0.1..=0.5, 0.05..=0.5
\* and 0.1..=0.8
MenuEliteRatios == {10, 20, 30, 40, 50}

MenuMutationRates == {8, 10, 15, 25}

MenuCrossoverRates == {15, 20, 25, 40}

\* values within the range of the DragValue of max_epochs: 1..=1000
MenuMaxEpochs == {1, 2, 100}

\* apply_high_performance_preset, apply_exploration_preset and
\* apply_precision_preset: the fields they assign
MenuPresets ==
    {[elite_ratio |-> 40, mutation_rate |-> 10, crossover_rate |-> 20,
      simulation_count |-> 8],
     [elite_ratio |-> 20, mutation_rate |-> 25, crossover_rate |-> 40,
      simulation_count |-> 12],
     [elite_ratio |-> 50, mutation_rate |-> 8, crossover_rate |-> 15,
      simulation_count |-> 6]}

\* apply_configuration: the SimulationParameters resource
ApplyConfiguration(config) ==
    [elite_ratio |-> config.elite_ratio,
     mutation_rate |-> config.mutation_rate,
     crossover_rate |-> config.crossover_rate,
     simulation_count |-> config.simulation_count,
     max_epochs |-> config.max_epochs]

\* let genetic_config = GeneticConfig::optimized(), in reset_for_new_epoch
GeneticConfigOptimized ==
    [elite_ratio |-> 30, mutation_rate |-> 15, crossover_rate |-> 25]

\* ((target_size as f32 * config.elite_ratio).ceil() as usize).max(1)
ConfigEliteCount(n, config) == Max(CeilDiv(n * config.elite_ratio, 100), 1)

CfgInit ==
    /\ cfg_pc = "menu"
    /\ \E n \in 1..MaxSimCount : menu_config = MenuConfigDefault(n)
    /\ cfg_params = << >>
    /\ genetic_config = << >>
    /\ cfg_elite_count = 0
    /\ cfg_epoch = 0

\* main_menu_ui: one of the DragValues is dragged
MenuDrag ==
    /\ cfg_pc = "menu"
    /\ \/ \E v \in MenuEliteRatios :
              menu_config' = [menu_config EXCEPT !.elite_ratio = v]
       \/ \E v \in MenuMutationRates :
              menu_config' = [menu_config EXCEPT !.mutation_rate = v]
       \/ \E v \in MenuCrossoverRates :
              menu_config' = [menu_config EXCEPT !.crossover_rate = v]
       \/ \E v \in MenuMaxEpochs :
              menu_config' = [menu_config EXCEPT !.max_epochs = v]
    /\ UNCHANGED <<cfg_pc, cfg_params, genetic_config, cfg_elite_count,
                   cfg_epoch>>
    /\ UNCHANGED nonCfgVars

\* main_menu_ui: one of the preset buttons
MenuPreset ==
    /\ cfg_pc = "menu"
    /\ \E preset \in MenuPresets :
           menu_config' =
               [menu_config EXCEPT
                   !.elite_ratio = preset.elite_ratio,
                   !.mutation_rate = preset.mutation_rate,
                   !.crossover_rate = preset.crossover_rate,
                   !.simulation_count = preset.simulation_count]
    /\ UNCHANGED <<cfg_pc, cfg_params, genetic_config, cfg_elite_count,
                   cfg_epoch>>
    /\ UNCHANGED nonCfgVars

\* the start button: apply_configuration, then AppState::Simulation
StartSimulation ==
    /\ cfg_pc = "menu"
    /\ cfg_params' = ApplyConfiguration(menu_config)
    /\ cfg_epoch' = 0
    /\ cfg_pc' = "simulation"
    /\ UNCHANGED <<menu_config, genetic_config, cfg_elite_count>>
    /\ UNCHANGED nonCfgVars

\* an epoch boundary: the epoch timer has finished, enhanced_epoch_management
\* calls start_new_epoch and sets SimulationState::Starting, and
\* reset_for_new_epoch builds the next generation
ConfigEpochBoundary ==
    /\ cfg_pc = "simulation"
    /\ cfg_epoch < MaxEpoch
    /\ cfg_epoch' = cfg_epoch + 1
    /\ genetic_config' = GeneticConfigOptimized
    /\ cfg_elite_count' =
           ConfigEliteCount(cfg_params.simulation_count, GeneticConfigOptimized)
    /\ UNCHANGED <<cfg_pc, menu_config, cfg_params>>
    /\ UNCHANGED nonCfgVars

NextConfig ==
    \/ MenuDrag
    \/ MenuPreset
    \/ StartSimulation
    \/ ConfigEpochBoundary

InitConfig ==
    /\ CfgInit
    /\ EvoIdle
    /\ FrameIdle
    /\ ExecIdle
    /\ PhysIdle
    /\ ResetIdle
    /\ GenomeIdle
    /\ HistIdle
    /\ CallIdle
    /\ FoodIdle
    /\ extract_runs = FALSE

SpecConfig == InitConfig /\ [][NextConfig]_vars

\* C22: at every epoch boundary the engine uses the elite ratio, the mutation
\* rate and the crossover rate of the configuration surface, and the number
\* of elites is ceil(simulation_count * configured elite_ratio)
C22_ConfiguredRatesUsed ==
    cfg_epoch > 0 =>
        /\ genetic_config.elite_ratio = cfg_params.elite_ratio
        /\ genetic_config.mutation_rate = cfg_params.mutation_rate
        /\ genetic_config.crossover_rate = cfg_params.crossover_rate
        /\ cfg_elite_count =
               CeilDiv(cfg_params.simulation_count * cfg_params.elite_ratio,
                       100)

\* C23: torus_distance(P, Q) equals torus_distance(Q, P) and is never larger
\* than the Euclidean distance of P and Q, whatever the points and the
\* extents of the domain
C23_TorusDistanceSymmetricAndShort ==
    call_fn = "torus_distance" =>
        /\ call_result = TorusDistanceSquared(call_args.pos2, call_args.pos1,
                                              call_args.grid_bounds)
        /\ call_result <= DistanceSquared(call_args.pos1, call_args.pos2)

\* a pair of points that is closer around the torus than across the domain
C23_Witness ==
    /\ call_fn = "torus_distance"
    /\ call_args.grid_bounds # << >>
    /\ call_result < DistanceSquared(call_args.pos1, call_args.pos2)
    /\ call_result > 0

\* C27: in bounded mode, after the boundary handling every axis of the
\* position satisfies |position| <= half_extent - particle_radius; on an
\* axis that exceeded the limit the velocity component is negated and
\* halved, on an axis within the limit position and velocity are unchanged
C27_BounceWithinLimits ==
    (call_fn = "apply_bounds" /\ call_args.mode = "Bounce") =>
        \A a \in Axes :
            LET limit == call_args.extents[a] \div 2 - ParticleRadius
            IN  /\ Abs(call_result.position[a]) <= limit
                /\ IF Abs(call_args.position[a]) > limit
                   THEN 2 * call_result.velocity[a]
                            = 0 - call_args.velocity[a]
                   ELSE /\ call_result.position[a] = call_args.position[a]
                        /\ call_result.velocity[a] = call_args.velocity[a]

\* a particle beyond the limit on one axis and within it on another
C27_Witness ==
    /\ call_fn = "apply_bounds"
    /\ call_args.mode = "Bounce"
    /\ \E a, b \in Axes :
           /\ Abs(call_args.position[a])
                  > call_args.extents[a] \div 2 - ParticleRadius
           /\ call_result.position[a] # call_args.position[a]
           /\ Abs(call_args.position[b])
                  <= call_args.extents[b] \div 2 - ParticleRadius
           /\ call_args.position[b] # 0

\* C24: in toroidal mode a particle whose integrated position exceeds the
\* extent of the domain on some axis lies within [-extent/2, extent/2) on
\* every axis after the boundary handling, and its velocity is the one it
\* had: it is not reflected
C24_TeleportWithinExtent ==
    (/\ call_fn = "apply_bounds"
     /\ call_args.mode = "Teleport"
     /\ \E a \in Axes :
            Abs(call_args.position[a]) > call_args.extents[a] \div 2) =>
        /\ \A a \in Axes :
               /\ call_result.position[a] >= 0 - call_args.extents[a] \div 2
               /\ call_result.position[a] < call_args.extents[a] \div 2
        /\ call_result.velocity = call_args.velocity

\* a particle that left the domain through one face and comes back through
\* the opposite one
C24_Witness ==
    /\ call_fn = "apply_bounds"
    /\ call_args.mode = "Teleport"
    /\ \E a \in Axes :
           /\ call_args.position[a] > call_args.extents[a] \div 2
           /\ call_result.position[a] < 0
           /\ call_result.velocity[a] > 0

C26_TournamentBestByRanking ==
    call_fn = "enhanced_tournament_selection" =>
        LET stats == EpochStats(call_args.population)
        IN  \A k \in DOMAIN call_args.drawn :
                CombinedFitness(call_result, stats)
                    >= CombinedFitness(
                           call_args.population[call_args.drawn[k]], stats)

\* C30: current_epoch never exceeds the configured max_epochs: once it has
\* reached max_epochs no further epoch boundary is triggered
C30_EpochsBounded ==
    cfg_pc = "simulation" => cfg_epoch <= cfg_params.max_epochs

\* ---------------------------------------------------------------------------
\* SpecFood: one food item and one particle per population over the frames
\* of an epoch, with the speed buttons and the pause key.
\* ---------------------------------------------------------------------------

\* detect_food_collision, lines 22-33: a finished respawn timer is reset and
\* the item made visible; a running timer of an item out of view is ticked
\* and the item skipped
RespawnBranch(food) ==
    IF ~food.respawn
    THEN [food |-> food, skip |-> FALSE, respawned |-> FALSE]
    ELSE IF food.elapsed >= FoodRespawnTime
    THEN [food |-> [food EXCEPT !.elapsed = 0, !.visibility = "Visible"],
          skip |-> FALSE, respawned |-> TRUE]
    ELSE IF ~food.view
    THEN [food |-> [food EXCEPT !.elapsed = Min(@ + 1, FoodRespawnTime)],
          skip |-> TRUE, respawned |-> FALSE]
    ELSE [food |-> food, skip |-> FALSE, respawned |-> FALSE]

\* the loop over the particles without its break
AllColliding(near) == near

\* the loop over the particles, in the order of the query, stops at the
\* first one within PARTICLE_RADIUS + FOOD_RADIUS: break
FirstColliding(near) ==
    IF near = {} THEN {}
    ELSE {CHOOSE s \in near : \A other \in near : s <= other}

\* detect_food_collision, lines 35-62: the score of the parent grows by
\* food.value; the item is hidden and its timer reset, or it is despawned
CollisionBranch(food, near, sc) ==
    IF FirstColliding(near) = {}
    THEN [food |-> food, scores |-> sc]
    ELSE [food |-> IF food.respawn
                   THEN [food EXCEPT !.visibility = "Hidden", !.elapsed = 0]
                   ELSE [food EXCEPT !.exists = FALSE],
          scores |-> [s \in DOMAIN sc |->
                         IF s \in FirstColliding(near)
                         THEN ScoreAdd(sc[s], FoodValue) ELSE sc[s]]]

\* spawn_food: the item is visible, its timer (if any) not started; the
\* particles are anywhere
FoodInit ==
    /\ f_pc = "physics"
    /\ f_state = "Running"
    /\ f_speed = 1
    /\ f_near \in SUBSET Sims
    /\ f_scores = [s \in Sims |-> ScoreDefault]
    /\ \E respawn_enabled \in BOOLEAN :
           f_food = [exists |-> TRUE, visibility |-> "Visible", view |-> FALSE,
                     respawn |-> respawn_enabled, elapsed |-> 0]
    /\ f_appearances = 1
    /\ f_awards = 0

\* physics_simulation_system: in state Running with a speed other than
\* Paused the particles move
FoodPhysics ==
    /\ f_pc = "physics"
    /\ IF f_state = "Running" /\ f_speed > 0
       THEN f_near' \in SUBSET Sims
       ELSE UNCHANGED f_near
    /\ f_pc' = "detect"
    /\ UNCHANGED <<f_state, f_speed, f_scores, f_food, f_appearances, f_awards>>
    /\ UNCHANGED nonFoodVars

\* detect_food_collision.run_if(in_state(SimulationState::Running))
FoodDetect ==
    /\ f_pc = "detect"
    /\ IF f_state = "Running" /\ f_food.exists
       THEN LET first == RespawnBranch(f_food)
                second == CollisionBranch(first.food, f_near, f_scores)
            IN  IF first.skip
                THEN /\ f_food' = first.food
                     /\ UNCHANGED <<f_scores, f_appearances, f_awards>>
                ELSE /\ \A s \in Sims : second.scores[s] <= MaxScore
                     /\ f_food' = second.food
                     /\ f_scores' = second.scores
                     /\ f_appearances' = IF first.respawned
                                         THEN f_appearances + 1
                                         ELSE f_appearances
                     /\ f_awards' = IF second.scores # f_scores
                                    THEN f_awards + 1 ELSE f_awards
       ELSE UNCHANGED <<f_food, f_scores, f_appearances, f_awards>>
    /\ f_pc' = "post"
    /\ UNCHANGED <<f_state, f_speed, f_near>>
    /\ UNCHANGED nonFoodVars

\* PostUpdate: the commands have been applied and ViewVisibility follows the
\* Visibility of the item
FoodPostUpdate ==
    /\ f_pc = "post"
    /\ f_food' = [f_food EXCEPT
                     !.view = f_food.exists /\ f_food.visibility = "Visible"]
    /\ f_pc' = "input"
    /\ UNCHANGED <<f_state, f_speed, f_near, f_scores, f_appearances, f_awards>>
    /\ UNCHANGED nonFoodVars

\* speed_control_ui and handle_pause_input: a speed button or the pause key,
\* in effect from the next frame on
FoodInput ==
    /\ f_pc = "input"
    /\ \/ UNCHANGED <<f_state, f_speed>>
       \/ /\ f_speed' \in {0, 1}
          /\ UNCHANGED f_state
       \/ /\ f_state' = IF f_state = "Running" THEN "Paused" ELSE "Running"
          /\ UNCHANGED f_speed
    /\ f_pc' = "physics"
    /\ UNCHANGED <<f_near, f_scores, f_food, f_appearances, f_awards>>
    /\ UNCHANGED nonFoodVars

NextFood ==
    \/ FoodPhysics
    \/ FoodDetect
    \/ FoodPostUpdate
    \/ FoodInput

InitFood ==
    /\ FoodInit
    /\ EvoIdle
    /\ FrameIdle
    /\ ExecIdle
    /\ PhysIdle
    /\ ResetIdle
    /\ GenomeIdle
    /\ HistIdle
    /\ CallIdle
    /\ CfgIdle
    /\ extract_runs = FALSE

SpecFood == InitFood /\ [][NextFood]_vars

\* the simulation is paused: by the speed buttons or by the pause key
FoodPaused == f_speed = 0 \/ f_state = "Paused"

\* C28: while the simulation is paused, by the speed Paused or by the state
\* Paused, nothing simulated changes: here the particles, the scores and the
\* visibility of the food stay as they are from one step to the next
C28_PausedFreezes ==
    [][(FoodPaused /\ FoodPaused') =>
           /\ f_near' = f_near
           /\ f_scores' = f_scores
           /\ f_food'.visibility = f_food.visibility]_vars

====
